---- MODULE Spec2Model ----
(***************************************************************************)
(* Execution engine of the CLI agent (packages/execution-engine):          *)
(*   - ExecutionEngine          (serial async generator, engine.ts)        *)
(*   - EnhancedExecutionEngine  (event queue + parallel batches,           *)
(*                               enhanced-engine.ts)                       *)
(* Both classes are in src/unnamed/part_009.                               *)
(*                                                                         *)
(* The consumer drives the generator with next() and may call the          *)
(* controller methods confirmPlan / confirmPermission / cancel at any      *)
(* time.  A promise resolved by a controller call resumes its awaiter in   *)
(* a later microtask, so further controller calls can happen in between:   *)
(* the *_answered positions model that gap.                                *)
(***************************************************************************)
EXTENDS Integers, Sequences, FiniteSets, TLC

\* ---------------------------------------------------------------- bounds
MaxSteps == 2
MaxConcurrentBound == 2
\* longest plan in the specification of the batch scheduling (SpecParallel)
MaxBatchSteps == 3
\* longest request target and longest allow/deny list pattern (permission guard)
MaxTargetLen == 2
MaxPatternLen == 2
\* largest maxApprovalsPerSession
MaxApprovals == 1
MaxSessionApprovals == 2
\* rate limiter: the clock runs to MaxTime, at most MaxRecords record() calls
\* per tool; maxCalls and windowMs of the source scaled down
MaxTime == 3
MaxRecords == 2
DefaultMaxCalls == 2
ShellMaxCalls == 1
DefaultWindowMs == 2

\* tool orchestrator: retryCount up to the source's default, maxParallelCalls
\* scaled down, executeParallel with at most MaxRequests requests
MaxRetryCount == 2
MaxParallelCalls == 2
MaxRequests == 3

\* intent router: inputs of at most MaxInputLen characters; the length under
\* which an input without any indicator is chat, scaled down
MaxInputLen == 4
ChatLength == 2

\* agent: at most MaxPlans plan() calls on the session, plans of at most
\* MaxPlanSteps steps, maxIterations scaled down
MaxPlans == 2
MaxPlanSteps == 2
MaxIterations == 2

\* TTL cache: the clock runs to MaxCacheTime; the TTLs of the source in
\* seconds (1000 ms, 2000 ms, and 5000 ms scaled down to DefaultTtl)
MaxCacheTime == 4
DefaultTtl == 3

\* ------------------------------------------------------------- constants
\* error strings of the source, as tokens
ErrNone == "none"
ErrPlanFailed == "plan_failed"          \* 'gui hua shi bai'  (planner failed)
ErrCancelled == "cancelled"             \* 'yi qu xiao'       (cancelled)
ErrUserCancelled == "user_cancelled"    \* 'yong hu qu xiao'  (user cancelled)
ErrUserDenied == "user_denied"          \* 'yong hu ju jue'   (user denied)
ErrThrown == "thrown"                   \* message of the error the executor threw
ErrPlanTimeout == "plan_timeout"        \* 'gui hua chao shi' (planning timed out)
ErrStepTimeout == "step_timeout"        \* 'zhi xing X chao shi' (step timed out)

\* the tools of a plan step that executeSteps treats as dependent
dependentTools == {"file_write", "file_delete", "file_move", "shell_execute"}

\* kinds of plan steps the planner may return: every combination of
\* (independent | dependent) x (prompting | non-prompting risk tier) occurs
StepKinds ==
  { [toolName |-> "file_read",    riskLevel |-> "READ"],
    [toolName |-> "file_write",   riskLevel |-> "MODIFY"],
    [toolName |-> "file_delete",  riskLevel |-> "DELETE"],
    [toolName |-> "process_kill", riskLevel |-> "SYSTEM"] }

MkPlan(f) ==
  [k \in 1..Len(f) |-> [id |-> k, toolName |-> f[k].toolName, riskLevel |-> f[k].riskLevel]]

VARIABLES
  plannerMax,         \* constructor: the planner returns plans of at most this many steps
  engine,             \* "serial" (ExecutionEngine) or "enhanced" (EnhancedExecutionEngine)
  hasFormatter,       \* constructor: formatter supplied
  maxConcurrent,      \* parallelConfig.maxConcurrent
  failFast,           \* parallelConfig.failFast
  pendingConfirm,     \* this.pendingConfirm: [type, owner]; owner names the resolver
  cancelled,          \* this.cancelled
  eventQueue,         \* this.eventQueue (enhanced)
  eventResolver,      \* this.eventResolver # null (enhanced)
  pc,                 \* position of run() (serial) or execute() (enhanced)
  steps,              \* the plan returned by the planner
  i,                  \* loop index of run() (serial); current group (enhanced)
  stepResults,        \* stepResults (serial) / results array (enhanced)
  planApproved,       \* const planApproved: "unset" | "yes" | "no"
  permissionApproved, \* per step: const permissionApproved
  sst,                \* enhanced: position of each executeSingleStep call
  cstate,             \* enhanced: position of run()'s for-await loop
  delivered,          \* enhanced: events the consumer has received
  events,             \* history: events emitted in this run
  execCalls,          \* history: executor invocations per step
  execOutcome,        \* history: how the executor call of a step settled
  cancelInRun,        \* history: cancel() was called since this run began
  resolvedBy,         \* history: the method that resolved each confirmation
  noopCalled,         \* history: a confirm method was called with no matching confirmation pending
  formatterOutcome,   \* history: how the formatter call settled ("none" | "ok" | "throw")
  result              \* the ExecutionResult returned by the run

cfgVars == <<engine, hasFormatter, maxConcurrent, failFast, plannerMax>>

\* permission guard (packages/permission-system)
VARIABLES
  guardConfig,        \* which factory made the guard, and its merged configuration
  callback,           \* let callback: "null" or "set"
  sessionState,       \* sessionState.approvals: approvals counted per tool name
  request,            \* the PermissionRequest of the evaluate() call in progress or last made
  evaluating,         \* position of evaluate(): "idle" | "awaiting" | "returned" | "rejected"
  permissionResult,   \* the PermissionResult evaluate() resolved with
  callbackAnswer,     \* history: "none", or what the callback answered for this request
  lastActivity,       \* sessionState.lastActivity, by the time between it and Date.now():
                      \* "recent" for less than sessionTimeout, "limit" for exactly
                      \* sessionTimeout, "old" for more
  callbackReached,    \* history: callback invocations per tool name since approvals were
                      \* cleared, in a guard that keeps a session
  approvalsCleared    \* history: approvals.clear() has removed a counter

guardVars == <<guardConfig, callback, sessionState, request, evaluating, permissionResult,
               callbackAnswer, lastActivity, callbackReached, approvalsCleared>>

\* the state of the components other than the execution engines

VARIABLES
  now,                \* Date.now()
  toolStates,         \* toolStates: per tool name, whether present, calls and config
  recorded,           \* history: the times of all record() calls per tool name
  lastCheck,          \* the tool and the RateLimitResult of the last check(), with the
                      \* time of the check and the number of record() calls before it
  configSet           \* history: setConfig() was called for the tool name
rateVars == <<now, toolStates, recorded, lastCheck, configSet>>


\* tool orchestrator (packages/tool-system); now and toolStates above are the
\* clock and the map of the rate limiter the orchestrator creates for itself
VARIABLES
  orchConfig,         \* finalConfig: retryCount and maxParallelCalls
  tools,              \* tools: the names of the registered tools
  permissionGuard,    \* let permissionGuard: FALSE for null, TRUE once a guard is set
  orchEvents,         \* events: which of onBeforeExecute, onAfterExecute are set
  executions,         \* per execute() call: position, request, retriesLeft of the
                      \* executeWithRetry round in progress, and the result returned
  executorCalls,      \* history: tool.execute invocations per execute() call
  afterCalls,         \* history: the results onAfterExecute received per execute() call
  passed,             \* history: the checks the round in progress has passed, in order,
                      \* and "execute" once it has called tool.execute
  inFlight,           \* tool.execute promises that have not settled
  parallel            \* executeParallel: position, requests, first index of the batch
                      \* in progress, results pushed so far
orchVars == <<orchConfig, tools, permissionGuard, orchEvents, executions, executorCalls,
              afterCalls, passed, inFlight, parallel>>


\* intent router (packages/intent-router)
VARIABLES
  routed,             \* the last detect() call: its input and the IntentResult
  fastPathCheck       \* the last isFastPath() call: its intent and the answer
routerVars == <<routed, fastPathCheck>>


\* agent (packages/agent-core, Agent of part_012) with one session
VARIABLES
  agentConfig,        \* maxIterations, and whether onPlanCreated, onStepExecuted are set
  sessionPlan,        \* session.plan: 0 for undefined, else the plan object
  planObjects,        \* the ExecutionPlan objects made by plan(): status and steps
  planCall,           \* position of the plan() call and the plan object it made
  executeCall         \* position of the execute() call, its plan and its locals
agentVars == <<agentConfig, sessionPlan, planObjects, planCall, executeCall>>

\* TTL cache (packages/intent-router, createTTLCache)
VARIABLES
  cache,              \* const cache: per key the CacheEntry, or none
  cacheNow,           \* Date.now() as the cache reads it
  lookup,             \* the last get() or has() call and what it returned
  lastSet             \* history: per key the last set() since the last clear()

cacheVars == <<cache, cacheNow, lookup, lastSet>>

besideGuard == <<rateVars, orchVars, routerVars, agentVars, cacheVars>>
besideRate == <<guardVars, orchVars, routerVars, agentVars, cacheVars>>
besideOrch == <<guardVars, recorded, lastCheck, configSet, routerVars, agentVars, cacheVars>>
besideRouter == <<guardVars, rateVars, orchVars, agentVars, cacheVars>>
besideAgent == <<guardVars, rateVars, orchVars, routerVars, cacheVars>>
besideCache == <<guardVars, rateVars, orchVars, routerVars, agentVars>>
componentVars == <<guardVars, rateVars, orchVars, routerVars, agentVars, cacheVars>>
engineVars == <<engine, hasFormatter, maxConcurrent, failFast, plannerMax, pendingConfirm,
                cancelled, eventQueue, eventResolver, pc, steps, i, stepResults, planApproved,
                permissionApproved, sst, cstate, delivered, events, execCalls,
                execOutcome, cancelInRun, resolvedBy, noopCalled, formatterOutcome, result>>
enhVars == <<eventQueue, eventResolver, sst, cstate, delivered>>
vars == <<engineVars, componentVars>>

\* the PlanStep[] values the planner may resolve with (ids unique, in order)
Plans == { MkPlan(f) : f \in UNION { [1..n -> StepKinds] : n \in 0..plannerMax } }

\* ------------------------------------------------------------ data values
NoConfirm == [type |-> "none", owner |-> 0]
PendingConfirm(t, o) == [type |-> t, owner |-> o]

Ev(t, idx, ok, info) == [type |-> t, idx |-> idx, ok |-> ok, info |-> info]
StatusEvent(phase) == Ev("status", 0, TRUE, phase)
ConfirmPlanEvent == Ev("confirm_plan", 0, TRUE, "")
ConfirmPermissionEvent(k) == Ev("confirm_permission", k, TRUE, "")
StepStartEvent(k) == Ev("step_start", k, TRUE, "")
StepCompleteEvent(k, ok, err) == Ev("step_complete", k, ok, err)
ResultEvent(ok, info) == Ev("result", 0, ok, info)
ErrorEvent(msg) == Ev("error", 0, FALSE, msg)

StepResult(id, ok, err) == [stepId |-> id, success |-> ok, error |-> err]
\* an empty slot of `new Array(steps.length)`
Hole == [stepId |-> 0, success |-> FALSE, error |-> "hole"]

NoResult == [returned |-> FALSE, success |-> FALSE, error |-> ErrNone, steps |-> <<>>]
ExecutionResult(ok, err, sr) == [returned |-> TRUE, success |-> ok, error |-> err, steps |-> sr]

\* ------------------------------------------------------- pure functions
NeedsPermissionNoDelete(step) == step.riskLevel = "SYSTEM"
NeedsPermissionAlsoModify(step) == step.riskLevel \in {"SYSTEM", "DELETE", "MODIFY"}
\* step.riskLevel === 'SYSTEM' || step.riskLevel === 'DELETE'
NeedsPermission(step) == step.riskLevel = "SYSTEM" \/ step.riskLevel = "DELETE"

\* as SomeSuccess, but asking every step to have succeeded
SomeSuccessNeedsAll(sr) == \A k \in 1..Len(sr) : sr[k] # Hole => sr[k].success

\* Array.prototype.every / some skip the empty slots of a sparse array
EverySuccess(sr) == \A k \in 1..Len(sr) : sr[k] # Hole => sr[k].success
SomeSuccess(sr) == \E k \in 1..Len(sr) : sr[k] # Hole /\ sr[k].success

PlanRejectedNever(answer) == FALSE
\* if (!planApproved)
PlanRejected(answer) == answer # "yes"

PermissionDeniedNever(answer) == FALSE
\* if (!permissionApproved)
PermissionDenied(answer) == answer # "yes"

RunKeepsCancelled(c) == c
\* this.cancelled = false, the first statement of run()
RunResetsCancelled(c) == FALSE

isIndependentStep(step) == step.toolName \notin dependentTools

Unset(n) == [k \in 1..n |-> "unset"]
Zeros(n) == [k \in 1..n |-> 0]
Answer(b) == IF b THEN "yes" ELSE "no"
\* who resolved the plan confirmation and each step's permission confirmation
NoneResolved(n) == [plan |-> "none", perm |-> [k \in 1..n |-> "none"]]

\* ------------------------------------------- permission guard: data
\* Strings are sequences over a small alphabet with a letter in both cases
\* and a blank; none of them starts with 'http' (URL targets are set apart
\* below).  The empty sequence stands for a target that is undefined or ''
\* (both are falsy).
Chars == {"r", "R", " "}
Strings(n) == UNION { [1..m -> Chars] : m \in 0..n }

toLowerCaseChar(c) == IF c = "R" THEN "r" ELSE IF c = "P" THEN "p" ELSE c
toLowerCase(str) == [n \in 1..Len(str) |-> toLowerCaseChar(str[n])]

RECURSIVE trimStart(_)
trimStart(str) ==
  IF Len(str) > 0 /\ str[1] = " " THEN trimStart(Tail(str)) ELSE str

RECURSIVE trimEnd(_)
trimEnd(str) ==
  IF Len(str) > 0 /\ str[Len(str)] = " " THEN trimEnd(SubSeq(str, 1, Len(str) - 1)) ELSE str

\* as trim, but leaving the string as it is
trimNothing(str) == str
\* String.prototype.trim
trim(str) == trimEnd(trimStart(str))

\* String.prototype.includes / startsWith
includes(str, sub) ==
  \E k \in 0..(Len(str) - Len(sub)) : SubSeq(str, k + 1, k + Len(sub)) = sub
startsWith(str, sub) ==
  Len(sub) <= Len(str) /\ SubSeq(str, 1, Len(sub)) = sub

\* Array.prototype.some over a list of patterns
SomePattern(list, P(_)) == \E n \in 1..Len(list) : P(list[n])

RiskLevel == {"READ", "MODIFY", "DELETE", "SYSTEM"}

DEFAULT_APPROVAL_POLICY_AUTO_DELETE ==
  [autoApprove |-> {"READ", "DELETE"},
   requireConfirmation |-> {"MODIFY", "DELETE", "SYSTEM"},
   denyByDefault |-> FALSE]
DEFAULT_APPROVAL_POLICY ==
  [autoApprove |-> {"READ"},
   requireConfirmation |-> {"MODIFY", "DELETE", "SYSTEM"},
   denyByDefault |-> FALSE]

\* approvalPolicy after the merge with config.approvalPolicy
ApprovalPolicies ==
  { DEFAULT_APPROVAL_POLICY,
    [autoApprove |-> {"READ", "SYSTEM"}, requireConfirmation |-> {"SYSTEM", "DELETE"},
     denyByDefault |-> FALSE],
    [autoApprove |-> {}, requireConfirmation |-> {"SYSTEM"}, denyByDefault |-> TRUE] }

\* DEFAULT_CONFIG of createPermissionGuard (the flags evaluate() reads)
DEFAULT_CONFIG ==
  [autoApproveRead |-> TRUE, autoApproveModify |-> FALSE,
   requireConfirmationForDelete |-> TRUE, requireConfirmationForSystem |-> TRUE,
   backupBeforeModify |-> TRUE]

FinalConfigs ==
  { DEFAULT_CONFIG,
    [autoApproveRead |-> FALSE, autoApproveModify |-> TRUE,
     requireConfirmationForDelete |-> FALSE, requireConfirmationForSystem |-> TRUE,
     backupBeforeModify |-> FALSE] }

\* lists of at most one pattern; a pattern has a letter in it
PatternLists ==
  {<<>>} \cup { <<pat>> : pat \in { str \in Strings(MaxPatternLen) : trim(str) # <<>> } }

EmptyWhitelist ==
  [allowedCommands |-> <<>>, deniedCommands |-> <<>>, allowedPaths |-> <<>>,
   deniedPaths |-> <<>>, allowedDomains |-> <<>>, deniedDomains |-> <<>>]

\* allow and deny lists after the merge with the configuration: a deny list
\* of commands alone,
DenyWhitelists ==
  { [EmptyWhitelist EXCEPT !.deniedCommands = list] : list \in PatternLists }

\* and lists of commands, of paths and of domains beside one another
Whitelists ==
  { [EmptyWhitelist EXCEPT !.allowedCommands = << <<"r">> >>, !.deniedCommands = list] :
      list \in {<<>>, << <<"R">> >>, << <<"r", " ">> >>} }
  \cup
  { [EmptyWhitelist EXCEPT !.allowedPaths = list, !.deniedPaths = << <<"R">> >>] :
      list \in {<<>>, << <<"r">> >>} }
  \cup
  { [EmptyWhitelist EXCEPT !.allowedDomains = allowed, !.deniedDomains = denied] :
      allowed \in {<<>>, << <<"r", "R">> >>}, denied \in {<<>>, << <<"R">> >>} }

GuardConfigs ==
  [kind : {"enhanced"}, approvalPolicy : {DEFAULT_APPROVAL_POLICY}, finalConfig : {DEFAULT_CONFIG},
   whitelist : DenyWhitelists, maxApprovalsPerSession : 1..MaxApprovals]
  \cup
  [kind : {"enhanced"}, approvalPolicy : ApprovalPolicies, finalConfig : {DEFAULT_CONFIG},
   whitelist : Whitelists, maxApprovalsPerSession : 1..MaxApprovals]
  \cup
  \* the basic guard reads no domain list
  [kind : {"basic"}, approvalPolicy : {DEFAULT_APPROVAL_POLICY}, finalConfig : FinalConfigs,
   whitelist : { w \in Whitelists : w.allowedDomains = <<>> /\ w.deniedDomains = <<>> },
   maxApprovalsPerSession : {MaxApprovals}]

\* createEnhancedPermissionGuard() with no configuration: the patterns of
\* DEFAULT_WHITELIST are strings outside this alphabet and match no target
\* of the model, which is what empty lists do
DefaultGuardConfig ==
  [kind |-> "enhanced", approvalPolicy |-> DEFAULT_APPROVAL_POLICY,
   finalConfig |-> DEFAULT_CONFIG,
   whitelist |-> EmptyWhitelist,
   maxApprovalsPerSession |-> MaxApprovals]

ToolNames == {"shell_execute", "file_delete"}

\* "h" stands for the prefix 'http://' of a target and what follows it is
\* the host: 'http://r', 'http://rr', and 'http://', which new URL() rejects
UrlTargets == {<<"h", "r">>, <<"h", "R", "r">>, <<"h">>}

\* a shell command is any string; the other actions name a path, a URL or
\* nothing
PermissionRequests ==
  [toolName : {"shell_execute"}, action : {"shell"}, target : Strings(MaxTargetLen),
   riskLevel : {"READ", "SYSTEM"}]
  \cup
  [toolName : {"shell_execute"}, action : {"delete"}, target : {<<>>, <<"r">>, <<"R", "r">>},
   riskLevel : RiskLevel]
  \cup
  [toolName : {"shell_execute"}, action : {"fetch"}, target : UrlTargets,
   riskLevel : RiskLevel]

NoRequest == [toolName |-> "", action |-> "", target |-> <<>>, riskLevel |-> "READ"]

\* reasons of a PermissionResult, as tokens
ReasonNone == "none"
ReasonDeniedPattern == "command_contains_denied_pattern"
ReasonNotInAllowedList == "command_not_in_allowed_list"
ReasonPathDenied == "path_in_denied_list"
ReasonPathNotAllowed == "path_not_in_allowed_list"
ReasonDomainDenied == "domain_in_denied_list"
ReasonDomainNotAllowed == "domain_not_in_allowed_list"
ReasonBasicPathNotAllowed == "path_not_allowed"
ReasonCommandNotAllowed == "command_not_allowed"
ReasonDeniedByPolicy == "denied_by_policy"
ReasonSessionLimit == "session_approval_limit_reached"
ReasonUserDenied == "user_denied_permission"
ReasonNoCallback == "no_permission_callback_configured"

PermissionResult(granted, reason, requiresBackup) ==
  [granted |-> granted, reason |-> reason, requiresBackup |-> requiresBackup]
NoPermissionResult == PermissionResult(FALSE, "pending", FALSE)

\* the guard as its factory returns it
GuardConstructed(cfg) ==
  /\ guardConfig = cfg
  /\ callback = "null"
  /\ sessionState = [t \in ToolNames |-> 0]
  /\ request = NoRequest
  /\ evaluating = "idle"
  /\ permissionResult = NoPermissionResult
  /\ callbackAnswer = "none"
  /\ lastActivity = "recent"
  /\ callbackReached = [t \in ToolNames |-> 0]
  /\ approvalsCleared = FALSE

\* ------------------------------------------------ rate limiter: data
RateTools == {"shell_execute", "test_tool"}

RateLimitConfig(maxCalls, windowMs) == [maxCalls |-> maxCalls, windowMs |-> windowMs]

\* DEFAULT_CONFIG of rate-limiter.ts
RATE_DEFAULT_CONFIG == RateLimitConfig(DefaultMaxCalls, DefaultWindowMs)

\* TOOL_SPECIFIC_CONFIGS, for the tool of the model that has an entry
TOOL_SPECIFIC_CONFIGS ==
  [t \in {"shell_execute"} |-> RateLimitConfig(ShellMaxCalls, DefaultWindowMs)]

RateConfigs == [maxCalls : 1..DefaultMaxCalls, windowMs : 1..DefaultWindowMs]

\* a RateLimitResult; retryAfter -1 stands for undefined
RateLimitResult(allowed, remaining, resetTime, retryAfter) ==
  [allowed |-> allowed, remaining |-> remaining, resetTime |-> resetTime,
   retryAfter |-> retryAfter]

NoCheck == [toolName |-> "", result |-> RateLimitResult(FALSE, 0, 0, -1), at |-> 0, records |-> 0]

\* createRateLimiter(): toolStates = new Map()
RateLimiterConstructed ==
  /\ now = 0
  /\ toolStates = [t \in RateTools |->
                     [present |-> FALSE, calls |-> <<>>, config |-> RATE_DEFAULT_CONFIG]]
  /\ recorded = [t \in RateTools |-> <<>>]
  /\ lastCheck = NoCheck
  /\ configSet = [t \in RateTools |-> FALSE]

\* ------------------------------------------------ tool orchestrator: data
\* OrchestratorConfig, the fields the pipeline reads besides the two delays
OrchestratorConfig(maxParallelCalls, retryCount) ==
  [maxParallelCalls |-> maxParallelCalls, retryCount |-> retryCount]

\* DEFAULT_CONFIG of the orchestrator
ORCH_DEFAULT_CONFIG == OrchestratorConfig(MaxParallelCalls, MaxRetryCount)

OrchestratorConfigs == [maxParallelCalls : 1..MaxParallelCalls, retryCount : 0..MaxRetryCount]

\* OrchestratorEvents: TRUE for a hook that is set.  onRateLimited only
\* notifies; onPermissionRequired is part of checkPermission's answer
OrchestratorEvents == [onBeforeExecute : BOOLEAN, onAfterExecute : BOOLEAN]
NoEvents == [onBeforeExecute |-> FALSE, onAfterExecute |-> FALSE]

\* params of a request: not an object at all, or an object with some keys
ParamValues ==
  { [object |-> FALSE, keys |-> {}],
    [object |-> TRUE, keys |-> {}],
    [object |-> TRUE, keys |-> {"command"}] }

\* ExecutionRequest: toolName and params
ExecutionRequests == [toolName : RateTools, params : ParamValues]
NoExecutionRequest == [toolName |-> "", params |-> [object |-> FALSE, keys |-> {}]]

\* schema.required of the tool's parameters
required(toolName) == IF toolName = "shell_execute" THEN {"command"} ELSE {}

\* error messages, as sequences of words
MsgNone == <<>>
MsgToolNotFound == <<"Tool", "not", "found">>
MsgValidationFailed == <<"Validation", "failed">>
MsgRateLimited == <<"Rate", "limited">>
MsgPermissionDenied == <<"Permission", "denied">>
MsgCancelled == <<"Execution", "cancelled", "by", "callback">>
MsgTimeout == <<"Timeout">>

\* messages of the errors a tool's executor throws
ToolMessages ==
  { <<"ECONNRESET">>, <<"Permission", "denied">>, <<"Validation", "error">>,
    <<"permission", "denied">> }

\* how the race of tool.execute against the timeout settles
ExecutorOutcomes ==
  [kind : {"result"}, success : BOOLEAN, message : {MsgNone}]
    \cup [kind : {"throws"}, success : {FALSE}, message : ToolMessages]
    \cup [kind : {"timeout"}, success : {FALSE}, message : {MsgTimeout}]

\* ExecutionResult: success, error and retries
OrchResult(success, error, retries) ==
  [success |-> success, error |-> error, retries |-> retries]
NoOrchResult == [success |-> FALSE, error |-> MsgNone, retries |-> -1]

Slots == 1..MaxRequests

IdleCall ==
  [pc |-> "idle", request |-> NoExecutionRequest, retriesLeft |-> 0, result |-> NoOrchResult]

NoParallel == [state |-> "idle", requests |-> <<>>, from |-> 1, results |-> <<>>]

\* createToolOrchestrator(config): no tool, no guard, no hook, nothing running
OrchestratorConstructed(config) ==
  /\ orchConfig = config
  /\ tools = {}
  /\ permissionGuard = FALSE
  /\ orchEvents = NoEvents
  /\ executions = [s \in Slots |-> IdleCall]
  /\ executorCalls = [s \in Slots |-> 0]
  /\ afterCalls = [s \in Slots |-> <<>>]
  /\ passed = [s \in Slots |-> <<>>]
  /\ inFlight = 0
  /\ parallel = NoParallel

\* ------------------------------------------------ intent router: data
\* the characters of an input: letters that spell some of the patterns, one
\* of them also in upper case, a blank and a hyphen
RouterChars == {"h", "i", "p", "P", "f", "l", "s", " ", "-"}
LowerLetters == {"h", "i", "p", "f", "l", "s"}
Inputs == UNION { [1..m -> RouterChars] : m \in 0..MaxInputLen }

IntentType ==
  {"system_query", "file_operation", "shell_command", "process_management", "chat",
   "complex_task"}

\* IntentResult: type, confidence (in hundredths) and needsLLM
IntentResult(type, confidence, needsLLM) ==
  [type |-> type, confidence |-> confidence, needsLLM |-> needsLLM]

\* the intents a caller may hand to isFastPath
IntentResults == [type : IntentType, confidence : {50}, needsLLM : BOOLEAN]

NoRouted == [called |-> FALSE, input |-> <<>>, intent |-> IntentResult("", 0, FALSE)]
NoFastPathCheck == [called |-> FALSE, intent |-> IntentResult("", 0, FALSE), answer |-> FALSE]

\* createIntentRouter(): the router keeps no state
RouterConstructed ==
  /\ routed = NoRouted
  /\ fastPathCheck = NoFastPathCheck

\* ------------------------------------------------ agent: data
\* the tool of the registry, and a tool name the registry does not know
AgentTools == {"file_read"}
StepTools == {"file_read", "unknown_tool"}

\* the toolCalls of an LLM response, by tool name
ToolCallLists == UNION { [1..n -> StepTools] : n \in 0..MaxPlanSteps }

PlanIds == 1..MaxPlans

\* an ExecutionPlan as plan() makes it: status 'pending', a pending step per
\* tool call
NewPlan(toolCalls) ==
  [status |-> "pending",
   steps |-> [k \in 1..Len(toolCalls) |-> [toolName |-> toolCalls[k], status |-> "pending"]]]

\* a plan object that plan() has not made yet
NoPlanObject == [status |-> "none", steps |-> <<>>]

IdlePlanCall == [pc |-> "idle", plan |-> 0]

IdleExecuteCall ==
  [pc |-> "idle", plan |-> 0, i |-> 0, iteration |-> 0, allStepsCompleted |-> TRUE,
   success |-> FALSE]

\* new Agent(config): no callback; a session from createSession has no plan
AgentConstructed(maxIterations) ==
  /\ agentConfig = [maxIterations |-> maxIterations, onPlanCreated |-> FALSE,
                    onStepExecuted |-> FALSE]
  /\ sessionPlan = 0
  /\ planObjects = [p \in PlanIds |-> NoPlanObject]
  /\ planCall = IdlePlanCall
  /\ executeCall = IdleExecuteCall

\* the components beside the engines, as constructed
\* ------------------------------------------------------------- TTL cache
CacheKeys == {"k1", "k2"}
CacheValues == {"v1", "v2"}

\* TTL_DEFAULTS, in seconds, for three of its tools
TTL_DEFAULTS ==
  [get_cpu_usage |-> 1, get_process_list |-> 2, get_time |-> 0]

CacheTools == {"get_cpu_usage", "get_process_list", "get_time", "get_uptime"}

\* TTL_DEFAULTS[toolName] ?? 5000
getTTL(toolName) ==
  IF toolName \in DOMAIN TTL_DEFAULTS THEN TTL_DEFAULTS[toolName] ELSE DefaultTtl

\* CacheEntry<T>
CacheEntry(value, timestamp, ttl) ==
  [present |-> TRUE, value |-> value, timestamp |-> timestamp, ttl |-> ttl]
NoEntry == [present |-> FALSE, value |-> "", timestamp |-> 0, ttl |-> 0]

NoLookup == [op |-> "none", key |-> "", found |-> FALSE, value |-> "", at |-> 0]

CacheConstructed ==
  /\ cache = [k \in CacheKeys |-> NoEntry]
  /\ cacheNow = 0
  /\ lookup = NoLookup
  /\ lastSet = [k \in CacheKeys |-> NoEntry]

ComponentsConstructed ==
  /\ GuardConstructed(DefaultGuardConfig)
  /\ RateLimiterConstructed
  /\ OrchestratorConstructed(ORCH_DEFAULT_CONFIG)
  /\ RouterConstructed
  /\ CacheConstructed
  /\ AgentConstructed(MaxIterations)

\* ------------------------------------------------------------------ Init
\* the fields of a newly constructed engine
Constructed ==
  /\ pendingConfirm = NoConfirm
  /\ cancelled = FALSE
  /\ eventQueue = <<>>
  /\ eventResolver = FALSE
  /\ pc = "idle"
  /\ steps = <<>>
  /\ i = 0
  /\ stepResults = <<>>
  /\ planApproved = "unset"
  /\ permissionApproved = <<>>
  /\ sst = <<>>
  /\ cstate = "idle"
  /\ delivered = <<>>
  /\ events = <<>>
  /\ execCalls = <<>>
  /\ execOutcome = <<>>
  /\ cancelInRun = FALSE
  /\ resolvedBy = NoneResolved(0)
  /\ noopCalled = FALSE
  /\ formatterOutcome = "none"
  /\ result = NoResult

Init ==
  /\ engine \in {"serial", "enhanced"}
  /\ hasFormatter \in BOOLEAN
  /\ maxConcurrent \in (IF engine = "enhanced" THEN 1..MaxConcurrentBound ELSE {1})
  /\ failFast \in (IF engine = "enhanced" THEN BOOLEAN ELSE {FALSE})
  /\ plannerMax = MaxSteps
  /\ Constructed
  /\ ComponentsConstructed


\* --------------------------------------------------- controller methods
RunActive ==
  IF engine = "serial" THEN pc \notin {"idle", "done"}
                       ELSE cstate \notin {"idle", "returned"}

RunCompleted ==
  IF engine = "serial" THEN pc = "done" ELSE cstate = "returned"

\* pendingConfirm.resolve(b): the awaiter resumes in a later microtask
ResolveConfirm(b, caller) ==
  /\ pendingConfirm' = NoConfirm
  /\ IF pendingConfirm.type = "plan"
       THEN /\ planApproved' = Answer(b)
            /\ resolvedBy' = [resolvedBy EXCEPT !.plan = caller]
            /\ pc' = "plan_answered"
            /\ UNCHANGED <<permissionApproved, sst>>
       ELSE /\ permissionApproved' =
                 [permissionApproved EXCEPT ![pendingConfirm.owner] = Answer(b)]
            /\ resolvedBy' = [resolvedBy EXCEPT !.perm[pendingConfirm.owner] = caller]
            /\ IF engine = "serial"
                 THEN pc' = "perm_answered" /\ sst' = sst
                 ELSE pc' = pc /\ sst' = [sst EXCEPT ![pendingConfirm.owner] = "perm_answered"]
            /\ planApproved' = planApproved

confirmPlanGuardAnyPending(p) == p.type # "none"
\* this.pendingConfirm?.type === 'plan'
confirmPlanGuard(p) == p.type = "plan"

confirmPermissionGuardAnyPending(p) == p.type # "none"
\* this.pendingConfirm?.type === 'permission'
confirmPermissionGuard(p) == p.type = "permission"

confirmPlan(approved) ==
  /\ noopCalled' = (noopCalled \/ pendingConfirm.type # "plan")
  /\ IF confirmPlanGuard(pendingConfirm)
       THEN ResolveConfirm(approved, "confirmPlan")
       ELSE UNCHANGED <<pendingConfirm, planApproved, permissionApproved, pc, sst, resolvedBy>>
  /\ UNCHANGED <<cfgVars, componentVars, cancelled, eventQueue, eventResolver, steps, i, stepResults,
                 cstate, delivered, events, execCalls, execOutcome, cancelInRun,
                 formatterOutcome, result>>

confirmPermission(approved) ==
  /\ noopCalled' = (noopCalled \/ pendingConfirm.type # "permission")
  /\ IF confirmPermissionGuard(pendingConfirm)
       THEN ResolveConfirm(approved, "confirmPermission")
       ELSE UNCHANGED <<pendingConfirm, planApproved, permissionApproved, pc, sst, resolvedBy>>
  /\ UNCHANGED <<cfgVars, componentVars, cancelled, eventQueue, eventResolver, steps, i, stepResults,
                 cstate, delivered, events, execCalls, execOutcome, cancelInRun,
                 formatterOutcome, result>>

cancel ==
  /\ cancelled' = TRUE
  /\ cancelInRun' = (cancelInRun \/ RunActive)
  /\ IF pendingConfirm.type # "none"
       THEN ResolveConfirm(FALSE, "cancel")
       ELSE UNCHANGED <<pendingConfirm, planApproved, permissionApproved, pc, sst, resolvedBy>>
  /\ IF engine = "enhanced" /\ eventResolver
       THEN eventResolver' = FALSE /\ cstate' = "ending"     \* eventResolver(null)
       ELSE UNCHANGED <<eventResolver, cstate>>
  /\ UNCHANGED <<cfgVars, componentVars, eventQueue, steps, i, stepResults, delivered, events,
                 execCalls, execOutcome, noopCalled, formatterOutcome, result>>

\* engine.run(goal) on an engine whose previous run has returned: a new
\* generator object; its body starts at the first next()
StartRun ==
  /\ RunCompleted
  /\ pc' = "idle" /\ cstate' = "idle"
  /\ steps' = <<>> /\ i' = 0 /\ stepResults' = <<>>
  /\ planApproved' = "unset" /\ permissionApproved' = <<>> /\ sst' = <<>>
  /\ delivered' = <<>> /\ events' = <<>> /\ execCalls' = <<>> /\ execOutcome' = <<>>
  /\ cancelInRun' = FALSE /\ result' = NoResult
  /\ resolvedBy' = NoneResolved(0)
  /\ noopCalled' = FALSE /\ formatterOutcome' = "none"
  /\ UNCHANGED <<cfgVars, componentVars, pendingConfirm, cancelled, eventQueue, eventResolver>>

\* ------------------------------------------ ExecutionEngine.run (serial)
serialFrame == <<cfgVars, componentVars, enhVars, cancelInRun, resolvedBy, noopCalled, formatterOutcome>>

\* top of the for loop at index idx with results sr, then Phase 4
SerialLoop(idx, sr) ==
  /\ i' = idx
  /\ stepResults' = sr
  /\ IF idx <= Len(steps)
       THEN IF cancelled
              THEN /\ pc' = "done"
                   /\ result' = ExecutionResult(FALSE, ErrCancelled, sr)
                   /\ events' = events
              ELSE /\ pc' = "y_step_start"
                   /\ events' = Append(events, StepStartEvent(idx))
                   /\ result' = result
       ELSE /\ result' = result
            /\ IF hasFormatter /\ SomeSuccess(sr)
                 THEN /\ pc' = "y_status_formatting"
                      /\ events' = Append(events, StatusEvent("formatting"))
                 ELSE /\ pc' = "y_result"
                      /\ events' = Append(events, ResultEvent(EverySuccess(sr), "raw"))

\* the executor is invoked for step k
InvokeExecutor(k) ==
  execCalls' = [execCalls EXCEPT ![k] = @ + 1]

\* first next(): the body starts, resets the flag and yields status(planning)
SerialStart ==
  /\ engine = "serial" /\ pc = "idle"
  /\ cancelled' = RunResetsCancelled(cancelled)
  /\ cancelInRun' = FALSE
  /\ events' = Append(events, StatusEvent("planning"))
  /\ pc' = "y_status_planning"
  /\ UNCHANGED <<cfgVars, componentVars, enhVars, pendingConfirm, steps, i, stepResults, planApproved,
                 permissionApproved, execCalls, execOutcome, resolvedBy, noopCalled,
                 formatterOutcome, result>>

\* next() while the body is suspended at a yield: it runs to its next await or yield
SerialNext ==
  /\ engine = "serial"
  /\ UNCHANGED <<serialFrame, cancelled, steps, planApproved, permissionApproved, execOutcome>>
  /\ \/ /\ pc = "y_status_planning"          \* await this.planner(goal)
        /\ pc' = "planner"
        /\ UNCHANGED <<pendingConfirm, i, stepResults, events, execCalls, result>>
     \/ /\ pc = "y_error"
        /\ pc' = "done"
        /\ result' = ExecutionResult(FALSE, ErrPlanFailed, <<>>)
        /\ UNCHANGED <<pendingConfirm, i, stepResults, events, execCalls>>
     \/ /\ pc = "y_confirm_plan"             \* await this.waitForConfirm('plan')
        /\ pendingConfirm' = PendingConfirm("plan", 0)
        /\ pc' = "wait_plan"
        /\ UNCHANGED <<i, stepResults, events, execCalls, result>>
     \/ /\ pc = "y_status_executing"
        /\ SerialLoop(1, <<>>)
        /\ UNCHANGED <<pendingConfirm, execCalls>>
     \/ /\ pc = "y_step_start"
        /\ IF NeedsPermission(steps[i])
             THEN /\ events' = Append(events, ConfirmPermissionEvent(i))
                  /\ pc' = "y_confirm_permission"
                  /\ execCalls' = execCalls
             ELSE /\ InvokeExecutor(i)
                  /\ pc' = "executor"
                  /\ events' = events
        /\ UNCHANGED <<pendingConfirm, i, stepResults, result>>
     \/ /\ pc = "y_confirm_permission"       \* await this.waitForConfirm('permission')
        /\ pendingConfirm' = PendingConfirm("permission", i)
        /\ pc' = "wait_perm"
        /\ UNCHANGED <<i, stepResults, events, execCalls, result>>
     \/ /\ pc = "y_step_denied"
        /\ SerialLoop(i + 1, Append(stepResults, StepResult(steps[i].id, FALSE, ErrUserDenied)))
        /\ UNCHANGED <<pendingConfirm, execCalls>>
     \/ /\ pc = "y_step_ok"
        /\ SerialLoop(i + 1, Append(stepResults, StepResult(steps[i].id, TRUE, ErrNone)))
        /\ UNCHANGED <<pendingConfirm, execCalls>>
     \/ /\ pc = "y_step_err"
        /\ SerialLoop(i + 1, Append(stepResults, StepResult(steps[i].id, FALSE, ErrThrown)))
        /\ UNCHANGED <<pendingConfirm, execCalls>>
     \/ /\ pc = "y_status_formatting"        \* await this.formatter(goal, stepResults)
        /\ pc' = "formatter"
        /\ UNCHANGED <<pendingConfirm, i, stepResults, events, execCalls, result>>
     \/ /\ pc = "y_result"
        /\ pc' = "done"
        /\ result' = ExecutionResult(EverySuccess(stepResults), ErrNone, stepResults)
        /\ UNCHANGED <<pendingConfirm, i, stepResults, events, execCalls>>

\* the planner's promise resolves with a plan
SerialPlannerResolve ==
  /\ engine = "serial" /\ pc = "planner"
  /\ \E p \in Plans :
       /\ steps' = p
       /\ permissionApproved' = Unset(Len(p))
       /\ resolvedBy' = NoneResolved(Len(p))
       /\ execCalls' = Zeros(Len(p))
       /\ execOutcome' = [k \in 1..Len(p) |-> "none"]
  /\ IF cancelled
       THEN /\ pc' = "done"
            /\ result' = ExecutionResult(FALSE, ErrCancelled, <<>>)
            /\ events' = events
       ELSE /\ pc' = "y_confirm_plan"
            /\ events' = Append(events, ConfirmPlanEvent)
            /\ result' = result
  /\ UNCHANGED <<cfgVars, componentVars, enhVars, cancelInRun, noopCalled, formatterOutcome, pendingConfirm,
                 cancelled, i, stepResults, planApproved>>

\* the planner throws
SerialPlannerReject ==
  /\ engine = "serial" /\ pc = "planner"
  /\ events' = Append(events, ErrorEvent(ErrThrown))
  /\ pc' = "y_error"
  /\ UNCHANGED <<serialFrame, pendingConfirm, cancelled, steps, i, stepResults, planApproved,
                 permissionApproved, execCalls, execOutcome, result>>

\* continuation of `await this.waitForConfirm('plan')`
SerialResumePlan ==
  /\ engine = "serial" /\ pc = "plan_answered"
  /\ IF PlanRejected(planApproved)
       THEN /\ pc' = "done"
            /\ result' = ExecutionResult(FALSE, ErrUserCancelled, <<>>)
            /\ events' = events
       ELSE IF cancelled
              THEN /\ pc' = "done"
                   /\ result' = ExecutionResult(FALSE, ErrCancelled, <<>>)
                   /\ events' = events
              ELSE /\ pc' = "y_status_executing"
                   /\ events' = Append(events, StatusEvent("executing"))
                   /\ result' = result
  /\ UNCHANGED <<serialFrame, pendingConfirm, cancelled, steps, i, stepResults, planApproved,
                 permissionApproved, execCalls, execOutcome>>

\* continuation of `await this.waitForConfirm('permission')`
SerialResumePermission ==
  /\ engine = "serial" /\ pc = "perm_answered"
  /\ IF PermissionDenied(permissionApproved[i])
       THEN /\ events' = Append(events, StepCompleteEvent(i, FALSE, ErrUserDenied))
            /\ pc' = "y_step_denied"
            /\ execCalls' = execCalls
       ELSE /\ InvokeExecutor(i)
            /\ pc' = "executor"
            /\ events' = events
  /\ UNCHANGED <<serialFrame, pendingConfirm, cancelled, steps, i, stepResults, planApproved,
                 permissionApproved, execOutcome, result>>

\* as SerialExecutorSettle, but a rejected call is retried once
SerialExecutorSettleRetries ==
  /\ engine = "serial" /\ pc = "executor"
  /\ \E ok \in BOOLEAN :
       IF ~ok /\ execCalls[i] < 2
         THEN /\ InvokeExecutor(i)
              /\ UNCHANGED <<execOutcome, events, pc>>
         ELSE /\ execOutcome' = [execOutcome EXCEPT ![i] = IF ok THEN "ok" ELSE "throw"]
              /\ events' = Append(events, StepCompleteEvent(i, ok, IF ok THEN ErrNone ELSE ErrThrown))
              /\ pc' = IF ok THEN "y_step_ok" ELSE "y_step_err"
              /\ execCalls' = execCalls
  /\ UNCHANGED <<serialFrame, pendingConfirm, cancelled, steps, i, stepResults, planApproved,
                 permissionApproved, result>>

\* the executor's promise settles: resolved (ok) or rejected
SerialExecutorSettle ==
  /\ engine = "serial" /\ pc = "executor"
  /\ \E ok \in BOOLEAN :
       /\ execOutcome' = [execOutcome EXCEPT ![i] = IF ok THEN "ok" ELSE "throw"]
       /\ events' = Append(events, StepCompleteEvent(i, ok, IF ok THEN ErrNone ELSE ErrThrown))
       /\ pc' = IF ok THEN "y_step_ok" ELSE "y_step_err"
  /\ UNCHANGED <<serialFrame, pendingConfirm, cancelled, steps, i, stepResults, planApproved,
                 permissionApproved, execCalls, result>>

\* the formatter's promise settles; the result event says success: true
SerialFormatterSettle ==
  /\ engine = "serial" /\ pc = "formatter"
  /\ \E ok \in BOOLEAN :
       /\ formatterOutcome' = (IF ok THEN "ok" ELSE "throw")
       /\ events' = Append(events, ResultEvent(TRUE, IF ok THEN "formatted" ELSE "raw"))
  /\ pc' = "y_result"
  /\ UNCHANGED <<cfgVars, componentVars, enhVars, cancelInRun, resolvedBy, noopCalled, pendingConfirm,
                 cancelled, steps, i, stepResults, planApproved, permissionApproved,
                 execCalls, execOutcome, result>>

NextSerial ==
  \/ SerialStart
  \/ SerialNext
  \/ SerialPlannerResolve
  \/ SerialPlannerReject
  \/ SerialResumePlan
  \/ SerialResumePermission
  \/ SerialExecutorSettle
  \/ SerialFormatterSettle

Controller ==
  \/ \E b \in BOOLEAN : confirmPlan(b)
  \/ \E b \in BOOLEAN : confirmPermission(b)
  \/ cancel
  \/ StartRun

InitSerial == Init /\ engine = "serial"
SpecSerial == InitSerial /\ [][NextSerial \/ Controller]_vars


\* ------------------------------------- EnhancedExecutionEngine (enhanced)
\* The code between two awaits of execute() runs without interruption: it is
\* computed on a record M of the fields it reads and writes.
Cur ==
  [events |-> events, eventQueue |-> eventQueue, eventResolver |-> eventResolver,
   delivered |-> delivered, cstate |-> cstate, pendingConfirm |-> pendingConfirm,
   sst |-> sst, stepResults |-> stepResults, execCalls |-> execCalls, i |-> i,
   pc |-> pc, result |-> result]

Apply(M) ==
  /\ events' = M.events /\ eventQueue' = M.eventQueue /\ eventResolver' = M.eventResolver
  /\ delivered' = M.delivered /\ cstate' = M.cstate /\ pendingConfirm' = M.pendingConfirm
  /\ sst' = M.sst /\ stepResults' = M.stepResults /\ execCalls' = M.execCalls
  /\ i' = M.i /\ pc' = M.pc /\ result' = M.result

\* emit(event): hand it to the waiting eventGenerator, else queue it
Emit(M, e) ==
  IF M.eventResolver
    THEN [M EXCEPT !.events = Append(@, e), !.eventResolver = FALSE,
                   !.delivered = Append(@, e), !.cstate = "holding"]
    ELSE [M EXCEPT !.events = Append(@, e), !.eventQueue = Append(@, e)]

\* one iteration of eventGenerator's loop, entered by the consumer's next()
Pull(M) ==
  IF Len(M.eventQueue) > 0
    THEN [M EXCEPT !.delivered = Append(@, Head(M.eventQueue)),
                   !.eventQueue = Tail(@), !.cstate = "holding"]
    ELSE [M EXCEPT !.eventResolver = TRUE, !.cstate = "waiting"]

Min(a, b) == IF a < b THEN a ELSE b

\* indices of the steps for which P holds, in plan order
RECURSIVE IndicesFrom(_, _, _)
IndicesFrom(st, k, indep) ==
  IF k > Len(st) THEN <<>>
  ELSE IF isIndependentStep(st[k]) = indep
         THEN <<k>> \o IndicesFrom(st, k + 1, indep)
         ELSE IndicesFrom(st, k + 1, indep)

independentSteps(st) == IndicesFrom(st, 1, TRUE)
dependentSteps(st) == IndicesFrom(st, 1, FALSE)

\* batches.push(steps.slice(i, i + maxConcurrent))
batches(s, k) ==
  [b \in 1..((Len(s) + k - 1) \div k) |-> SubSeq(s, (b - 1) * k + 1, Min(b * k, Len(s)))]

Singletons(s) == [b \in 1..Len(s) |-> <<s[b]>>]

\* the order in which executeSteps starts the steps: the groups of steps
\* started together; par marks a batch of executeParallel
Groups(st, k) ==
  LET ind == independentSteps(st)
      first == IF Len(ind) > 1 THEN batches(ind, k) ELSE Singletons(ind)
      par == Len(ind) > 1
  IN  [g \in 1..Len(first) |-> [members |-> first[g], par |-> par]]
      \o [g \in 1..Len(dependentSteps(st)) |->
            [members |-> <<dependentSteps(st)[g]>>, par |-> FALSE]]

\* executeSingleStep up to its first await
StartSingle(M, k) ==
  IF cancelled
    THEN [M EXCEPT !.stepResults[k] = StepResult(steps[k].id, FALSE, ErrCancelled),
                   !.sst[k] = "done"]
    ELSE LET M1 == Emit(M, StepStartEvent(k))
         IN  IF NeedsPermission(steps[k])
               THEN [Emit(M1, ConfirmPermissionEvent(k)) EXCEPT
                       !.pendingConfirm = PendingConfirm("permission", k),
                       !.sst[k] = "wait_perm"]
               ELSE [M1 EXCEPT !.execCalls[k] = @ + 1, !.sst[k] = "executing"]

\* batch.map(async ...): every member runs to its first await, in order
RECURSIVE StartMembers(_, _, _)
StartMembers(M, members, n) ==
  IF n > Len(members) THEN M
  ELSE StartMembers(StartSingle(M, members[n]), members, n + 1)

\* allSuccess, the formatter condition and the result event of execute()
FinishSteps(M) ==
  LET allSuccess == EverySuccess(M.stepResults)
  IN  IF hasFormatter /\ SomeSuccess(M.stepResults)
        THEN [Emit(M, StatusEvent("formatting")) EXCEPT !.pc = "formatter"]
        ELSE [Emit(M, ResultEvent(allSuccess, "raw")) EXCEPT
                !.pc = "finished",
                !.result = ExecutionResult(allSuccess, ErrNone, M.stepResults)]

\* executeSteps / executeParallel from group g on; broke: the batch loop was left
RECURSIVE RunGroups(_, _, _)
RunGroups(M, g, broke) ==
  LET gs == Groups(steps, maxConcurrent)
  IN  IF g > Len(gs) THEN FinishSteps(M)
      ELSE IF gs[g].par
             THEN IF broke \/ cancelled
                    THEN RunGroups(M, g + 1, TRUE)
                    ELSE [StartMembers(M, gs[g].members, 1) EXCEPT !.i = g]
             ELSE LET M1 == [StartSingle(M, gs[g].members[1]) EXCEPT !.i = g]
                  IN  IF M1.sst[gs[g].members[1]] = "done"
                        THEN RunGroups(M1, g + 1, FALSE)
                        ELSE M1

\* a member of the current group has returned: Promise.all / await, failFast
GroupJoin(M) ==
  LET grp == Groups(steps, maxConcurrent)[M.i]
      ms == {grp.members[n] : n \in 1..Len(grp.members)}
  IN  IF \A m \in ms : M.sst[m] = "done"
        THEN RunGroups(M, M.i + 1,
                       grp.par /\ failFast /\ (\E m \in ms : ~M.stepResults[m].success))
        ELSE M

enhFrame == <<cfgVars, componentVars, cancelInRun, resolvedBy, noopCalled, formatterOutcome>>

\* first next() of run(): reset, start execute(), pull the first event
EnhStart ==
  /\ engine = "enhanced" /\ cstate = "idle"
  /\ cancelled' = RunResetsCancelled(cancelled)
  /\ cancelInRun' = FALSE
  /\ Apply(Pull([Emit([Cur EXCEPT !.eventQueue = <<>>], StatusEvent("planning"))
                   EXCEPT !.pc = "planner"]))
  /\ UNCHANGED <<cfgVars, componentVars, steps, planApproved, permissionApproved, execOutcome, resolvedBy,
                 noopCalled, formatterOutcome>>

\* next() of the consumer while run() is suspended at `yield event`
EnhNext ==
  /\ engine = "enhanced" /\ cstate = "holding"
  /\ Apply(Pull(Cur))
  /\ UNCHANGED <<enhFrame, cancelled, steps, planApproved, permissionApproved, execOutcome>>

\* withTimeout(planner(goal)) settles: a plan, a thrown error, or the timeout
EnhPlannerResolve ==
  /\ engine = "enhanced" /\ pc = "planner"
  /\ \E p \in Plans :
       /\ steps' = p
       /\ permissionApproved' = Unset(Len(p))
       /\ resolvedBy' = NoneResolved(Len(p))
       /\ execOutcome' = [k \in 1..Len(p) |-> "none"]
       /\ LET M == [Cur EXCEPT !.execCalls = Zeros(Len(p)),
                               !.sst = [k \in 1..Len(p) |-> "none"]]
          IN  IF cancelled
                THEN Apply([Emit(M, ResultEvent(FALSE, ErrCancelled)) EXCEPT
                              !.pc = "finished",
                              !.result = ExecutionResult(FALSE, ErrCancelled, <<>>)])
                ELSE IF Len(p) = 0
                  THEN Apply([Emit(Emit(M, StatusEvent("executing")), ResultEvent(TRUE, ""))
                                EXCEPT !.pc = "finished",
                                       !.result = ExecutionResult(TRUE, ErrNone, <<>>)])
                  ELSE Apply([Emit(M, ConfirmPlanEvent) EXCEPT
                                !.pendingConfirm = PendingConfirm("plan", 0),
                                !.pc = "wait_plan"])
  /\ UNCHANGED <<cfgVars, componentVars, cancelInRun, noopCalled, formatterOutcome, cancelled, planApproved>>

EnhPlannerReject ==
  /\ engine = "enhanced" /\ pc = "planner"
  /\ \E msg \in {ErrThrown, ErrPlanTimeout} :
       Apply([Emit(Emit(Cur, ErrorEvent(msg)), ResultEvent(FALSE, ErrPlanFailed)) EXCEPT
                !.pc = "finished",
                !.result = ExecutionResult(FALSE, ErrPlanFailed, <<>>)])
  /\ UNCHANGED <<enhFrame, cancelled, steps, planApproved, permissionApproved, execOutcome>>

\* continuation of `await this.waitForConfirm('plan')`
EnhResumePlan ==
  /\ engine = "enhanced" /\ pc = "plan_answered"
  /\ IF PlanRejected(planApproved)
       THEN Apply([Emit(Cur, ResultEvent(FALSE, ErrUserCancelled)) EXCEPT
                     !.pc = "finished",
                     !.result = ExecutionResult(FALSE, ErrUserCancelled, <<>>)])
       ELSE IF cancelled
              THEN Apply([Emit(Cur, ResultEvent(FALSE, ErrCancelled)) EXCEPT
                            !.pc = "finished",
                            !.result = ExecutionResult(FALSE, ErrCancelled, <<>>)])
              ELSE Apply(RunGroups([Emit(Cur, StatusEvent("executing")) EXCEPT
                                      !.pc = "executing",
                                      !.stepResults = [k \in 1..Len(steps) |-> Hole]],
                                   1, FALSE))
  /\ UNCHANGED <<enhFrame, cancelled, steps, planApproved, permissionApproved, execOutcome>>

\* continuation of `await this.waitForConfirm('permission')` in executeSingleStep
EnhResumePermission ==
  /\ engine = "enhanced" /\ pc = "executing"
  /\ \E k \in 1..Len(steps) :
       /\ sst[k] = "perm_answered"
       /\ IF PermissionDenied(permissionApproved[k])
            THEN Apply(GroupJoin([Emit(Cur, StepCompleteEvent(k, FALSE, ErrUserDenied)) EXCEPT
                                    !.stepResults[k] = StepResult(steps[k].id, FALSE, ErrUserDenied),
                                    !.sst[k] = "done"]))
            ELSE Apply([Cur EXCEPT !.execCalls[k] = @ + 1, !.sst[k] = "executing"])
  /\ UNCHANGED <<enhFrame, cancelled, steps, planApproved, permissionApproved, execOutcome>>

\* as StepError, a timeout reported with the reason of a cancellation
StepErrorAsCancelled(outcome) == IF outcome = "throw" THEN ErrThrown ELSE ErrCancelled

StepError(outcome) == IF outcome = "throw" THEN ErrThrown ELSE ErrStepTimeout

\* withTimeout(executor(step)) settles: resolved, rejected, or the timeout wins
EnhExecutorSettle ==
  /\ engine = "enhanced" /\ pc = "executing"
  /\ \E k \in 1..Len(steps), outcome \in {"ok", "throw", "timeout"} :
       /\ sst[k] = "executing"
       /\ execOutcome' = [execOutcome EXCEPT ![k] = outcome]
       /\ IF outcome = "ok"
            THEN Apply(GroupJoin([Emit(Cur, StepCompleteEvent(k, TRUE, ErrNone)) EXCEPT
                                    !.stepResults[k] = StepResult(steps[k].id, TRUE, ErrNone),
                                    !.sst[k] = "done"]))
            ELSE Apply(GroupJoin([Emit(Cur, StepCompleteEvent(k, FALSE, StepError(outcome))) EXCEPT
                                    !.stepResults[k] = StepResult(steps[k].id, FALSE, StepError(outcome)),
                                    !.sst[k] = "done"]))
  /\ UNCHANGED <<enhFrame, cancelled, steps, planApproved, permissionApproved>>

\* Promise.race does not stop the loser: an executor call whose timeout won
\* is still running, and its promise settles later, unobserved
EnhExecutorSettleLate ==
  /\ engine = "enhanced"
  /\ \E k \in 1..Len(execOutcome) :
       /\ execOutcome[k] = "timeout"
       /\ execOutcome' = [execOutcome EXCEPT ![k] = "timeout_settled"]
  /\ UNCHANGED <<enhFrame, enhVars, pendingConfirm, cancelled, pc, steps, i, stepResults,
                 planApproved, permissionApproved, events, execCalls, result>>

\* the formatter settles; the result event carries allSuccess
EnhFormatterSettle ==
  /\ engine = "enhanced" /\ pc = "formatter"
  /\ \E ok \in BOOLEAN :
       /\ formatterOutcome' = (IF ok THEN "ok" ELSE "throw")
       /\ Apply([Emit(Cur, ResultEvent(EverySuccess(stepResults), IF ok THEN "formatted" ELSE "raw"))
                   EXCEPT !.pc = "finished",
                          !.result = ExecutionResult(EverySuccess(stepResults), ErrNone, stepResults)])
  /\ UNCHANGED <<cfgVars, componentVars, cancelInRun, resolvedBy, noopCalled, cancelled, steps, planApproved,
                 permissionApproved, execOutcome>>

\* `return await executionPromise` after the event stream was ended
EnhReturn ==
  /\ engine = "enhanced" /\ cstate = "ending" /\ pc = "finished"
  /\ cstate' = "returned"
  /\ UNCHANGED <<cfgVars, componentVars, pendingConfirm, cancelled, eventQueue, eventResolver, pc, steps, i,
                 stepResults, planApproved, permissionApproved, sst, delivered, events,
                 execCalls, execOutcome, cancelInRun, resolvedBy, noopCalled,
                 formatterOutcome, result>>

NextEnhanced ==
  \/ EnhStart
  \/ EnhNext
  \/ EnhPlannerResolve
  \/ EnhPlannerReject
  \/ EnhResumePlan
  \/ EnhResumePermission
  \/ EnhExecutorSettle
  \/ EnhExecutorSettleLate
  \/ EnhFormatterSettle
  \/ EnhReturn

InitEnhanced == Init /\ engine = "enhanced"
SpecEnhanced == InitEnhanced /\ [][NextEnhanced \/ Controller]_vars

\* The batch scheduling of the enhanced engine on longer plans, with a
\* caller that confirms only what is pending, cancels only a run in
\* progress and runs the engine once.
InitParallel ==
  /\ engine = "enhanced"
  /\ hasFormatter \in BOOLEAN
  /\ maxConcurrent \in 1..MaxConcurrentBound
  /\ failFast \in BOOLEAN
  /\ plannerMax = MaxBatchSteps
  /\ Constructed
  /\ ComponentsConstructed

ControllerOfRun ==
  \/ \E b \in BOOLEAN : confirmPlanGuard(pendingConfirm) /\ confirmPlan(b)
  \/ \E b \in BOOLEAN : confirmPermissionGuard(pendingConfirm) /\ confirmPermission(b)
  \/ RunActive /\ cancel

SpecParallel == InitParallel /\ [][NextEnhanced \/ ControllerOfRun]_vars

\* One run of the enhanced engine in which what the run waits for does
\* happen: the consumer keeps iterating the generator, the planner, the
\* executors and the formatter settle, a pending confirmation is answered,
\* and a resumed continuation runs.  cancel() may be called but need not be.
AnswerPending ==
  \/ \E b \in BOOLEAN : confirmPlanGuard(pendingConfirm) /\ confirmPlan(b)
  \/ \E b \in BOOLEAN : confirmPermissionGuard(pendingConfirm) /\ confirmPermission(b)

RunFairness ==
  /\ WF_vars(EnhStart)
  /\ WF_vars(EnhNext)
  /\ WF_vars(EnhPlannerResolve \/ EnhPlannerReject)
  /\ WF_vars(EnhResumePlan)
  /\ WF_vars(EnhResumePermission)
  /\ WF_vars(EnhExecutorSettle)
  /\ WF_vars(EnhFormatterSettle)
  /\ WF_vars(EnhReturn)
  /\ WF_vars(AnswerPending)

SpecTermination ==
  InitEnhanced /\ [][NextEnhanced \/ ControllerOfRun]_vars /\ RunFairness

Next == NextSerial \/ NextEnhanced \/ Controller
Spec == Init /\ [][Next]_vars


\* --------------------------------------- permission guard: evaluate()
\* enhanced guard, isCommandAllowed(command)
isCommandAllowed(whitelist, command) ==
  LET cmd == trim(toLowerCase(command)) IN
  IF SomePattern(whitelist.deniedCommands, LAMBDA denied : includes(cmd, toLowerCase(denied)))
    THEN [allowed |-> FALSE, reason |-> ReasonDeniedPattern]
  ELSE IF /\ Len(whitelist.allowedCommands) > 0
          /\ ~SomePattern(whitelist.allowedCommands,
                          LAMBDA allowed : includes(cmd, toLowerCase(allowed)))
    THEN [allowed |-> FALSE, reason |-> ReasonNotInAllowedList]
  ELSE [allowed |-> TRUE, reason |-> ReasonNone]

\* enhanced guard, isPathAllowed(targetPath)
isPathAllowed(whitelist, targetPath) ==
  IF SomePattern(whitelist.deniedPaths,
                 LAMBDA denied : startsWith(toLowerCase(targetPath), toLowerCase(denied)))
    THEN [allowed |-> FALSE, reason |-> ReasonPathDenied]
  ELSE IF /\ Len(whitelist.allowedPaths) > 0
          /\ ~SomePattern(whitelist.allowedPaths,
                          LAMBDA allowed : startsWith(toLowerCase(targetPath), toLowerCase(allowed)))
    THEN [allowed |-> FALSE, reason |-> ReasonPathNotAllowed]
  ELSE [allowed |-> TRUE, reason |-> ReasonNone]

\* target.startsWith('http')
startsWithHttp(target) == Len(target) > 0 /\ target[1] = "h"

\* new URL(url) throws
urlInvalid(url) == Len(url) < 2

\* new URL(url).hostname.toLowerCase()
hostname(url) == toLowerCase(Tail(url))

\* as isDomainAllowed, refusing a url that new URL() rejects where an
\* allow list is configured
isDomainAllowedStrict(whitelist, url) ==
  IF urlInvalid(url)
    THEN IF Len(whitelist.allowedDomains) > 0
           THEN [allowed |-> FALSE, reason |-> ReasonDomainNotAllowed]
           ELSE [allowed |-> TRUE, reason |-> ReasonNone]
  ELSE IF SomePattern(whitelist.deniedDomains,
                      LAMBDA denied : includes(hostname(url), toLowerCase(denied)))
    THEN [allowed |-> FALSE, reason |-> ReasonDomainDenied]
  ELSE IF /\ Len(whitelist.allowedDomains) > 0
          /\ ~SomePattern(whitelist.allowedDomains,
                          LAMBDA allowed : includes(hostname(url), toLowerCase(allowed)))
    THEN [allowed |-> FALSE, reason |-> ReasonDomainNotAllowed]
  ELSE [allowed |-> TRUE, reason |-> ReasonNone]

\* enhanced guard, isDomainAllowed(url)
isDomainAllowed(whitelist, url) ==
  IF urlInvalid(url)
    THEN [allowed |-> TRUE, reason |-> ReasonNone]
  ELSE IF SomePattern(whitelist.deniedDomains,
                      LAMBDA denied : includes(hostname(url), toLowerCase(denied)))
    THEN [allowed |-> FALSE, reason |-> ReasonDomainDenied]
  ELSE IF /\ Len(whitelist.allowedDomains) > 0
          /\ ~SomePattern(whitelist.allowedDomains,
                          LAMBDA allowed : includes(hostname(url), toLowerCase(allowed)))
    THEN [allowed |-> FALSE, reason |-> ReasonDomainNotAllowed]
  ELSE [allowed |-> TRUE, reason |-> ReasonNone]

\* path.resolve of a relative path without separators: the working
\* directory is put in front of it
pathResolve(targetPath) == <<"/">> \o targetPath

\* basic guard, isPathAllowed(targetPath)
basicIsPathAllowed(whitelist, targetPath) ==
  LET normalizedPath == pathResolve(targetPath) IN
  IF SomePattern(whitelist.deniedPaths,
                 LAMBDA denied : startsWith(normalizedPath, pathResolve(denied)))
    THEN FALSE
  ELSE IF Len(whitelist.allowedPaths) > 0
    THEN SomePattern(whitelist.allowedPaths,
                     LAMBDA allowed : startsWith(normalizedPath, pathResolve(allowed)))
  ELSE TRUE

\* basic guard, isCommandAllowed(command)
basicIsCommandAllowed(whitelist, command) ==
  LET cmd == trim(toLowerCase(command)) IN
  IF SomePattern(whitelist.deniedCommands, LAMBDA denied : includes(cmd, toLowerCase(denied)))
    THEN FALSE
  ELSE IF Len(whitelist.allowedCommands) > 0
    THEN SomePattern(whitelist.allowedCommands,
                     LAMBDA allowed : includes(cmd, toLowerCase(allowed)))
  ELSE TRUE

\* as sessionExpired, from exactly sessionTimeout on
sessionExpiredAtTimeout(elapsed) == elapsed # "recent"

\* now - sessionState.lastActivity > sessionTimeout
sessionExpired(elapsed) == elapsed = "old"

\* as checkSessionLimit, counting from maxApprovalsPerSession + 1
checkSessionLimitOffByOne(approvals, toolName, expired, maxApprovalsPerSession) ==
  LET cleared == IF expired THEN [t \in ToolNames |-> 0] ELSE approvals
      currentCount == cleared[toolName]
  IN IF currentCount > maxApprovalsPerSession
       THEN [ok |-> FALSE, approvals |-> cleared]
       ELSE [ok |-> TRUE, approvals |-> [cleared EXCEPT ![toolName] = currentCount + 1]]

\* checkSessionLimit(toolName); expired: now - lastActivity > sessionTimeout
checkSessionLimit(approvals, toolName, expired, maxApprovalsPerSession) ==
  LET cleared == IF expired THEN [t \in ToolNames |-> 0] ELSE approvals
      currentCount == cleared[toolName]
  IN IF currentCount >= maxApprovalsPerSession
       THEN [ok |-> FALSE, approvals |-> cleared]
       ELSE [ok |-> TRUE, approvals |-> [cleared EXCEPT ![toolName] = currentCount + 1]]

\* what evaluate() does up to its return or its await of the callback
Returns(res, approvals) ==
  [awaits |-> FALSE, result |-> res, approvals |-> approvals, checked |-> FALSE]
AwaitsCallback(approvals) ==
  [awaits |-> TRUE, result |-> NoPermissionResult, approvals |-> approvals, checked |-> FALSE]
\* the same outcome, reached after checkSessionLimit ran
AfterSessionCheck(out) == [out EXCEPT !.checked = TRUE]

\* as evaluateEnhanced, with the auto-approval ahead of the lists
evaluateEnhancedPolicyFirst(cfg, cb, approvals, req, expired) ==
  LET cmdCheck == isCommandAllowed(cfg.whitelist, req.target)
      pathCheck == isPathAllowed(cfg.whitelist, req.target)
      limit == checkSessionLimit(approvals, req.toolName, expired, cfg.maxApprovalsPerSession)
      domainCheck == isDomainAllowed(cfg.whitelist, req.target)
  IN
  IF req.riskLevel \in cfg.approvalPolicy.autoApprove
    THEN Returns(PermissionResult(TRUE, ReasonNone, req.riskLevel = "MODIFY"), approvals)
  ELSE IF req.action = "shell" /\ req.target # <<>> /\ ~cmdCheck.allowed
    THEN Returns(PermissionResult(FALSE, cmdCheck.reason, FALSE), approvals)
  ELSE IF req.target # <<>> /\ ~startsWithHttp(req.target) /\ ~pathCheck.allowed
    THEN Returns(PermissionResult(FALSE, pathCheck.reason, FALSE), approvals)
  ELSE IF req.target # <<>> /\ startsWithHttp(req.target) /\ ~domainCheck.allowed
    THEN Returns(PermissionResult(FALSE, domainCheck.reason, FALSE), approvals)
  ELSE IF req.riskLevel \in cfg.approvalPolicy.autoApprove
    THEN Returns(PermissionResult(TRUE, ReasonNone, req.riskLevel = "MODIFY"), approvals)
  ELSE IF req.riskLevel \notin cfg.approvalPolicy.requireConfirmation
    THEN Returns(PermissionResult(~cfg.approvalPolicy.denyByDefault,
                                  IF cfg.approvalPolicy.denyByDefault
                                    THEN ReasonDeniedByPolicy ELSE ReasonNone,
                                  FALSE), approvals)
  ELSE IF ~limit.ok
    THEN AfterSessionCheck(Returns(PermissionResult(FALSE, ReasonSessionLimit, FALSE),
                                   limit.approvals))
  ELSE IF cb = "set"
    THEN AfterSessionCheck(AwaitsCallback(limit.approvals))
  ELSE AfterSessionCheck(Returns(PermissionResult(FALSE, ReasonNoCallback, FALSE),
                                 limit.approvals))

\* enhanced guard, evaluate(request) up to the await
evaluateEnhanced(cfg, cb, approvals, req, expired) ==
  LET cmdCheck == isCommandAllowed(cfg.whitelist, req.target)
      pathCheck == isPathAllowed(cfg.whitelist, req.target)
      limit == checkSessionLimit(approvals, req.toolName, expired, cfg.maxApprovalsPerSession)
      domainCheck == isDomainAllowed(cfg.whitelist, req.target)
  IN
  IF req.action = "shell" /\ req.target # <<>> /\ ~cmdCheck.allowed
    THEN Returns(PermissionResult(FALSE, cmdCheck.reason, FALSE), approvals)
  ELSE IF req.target # <<>> /\ ~startsWithHttp(req.target) /\ ~pathCheck.allowed
    THEN Returns(PermissionResult(FALSE, pathCheck.reason, FALSE), approvals)
  ELSE IF req.target # <<>> /\ startsWithHttp(req.target) /\ ~domainCheck.allowed
    THEN Returns(PermissionResult(FALSE, domainCheck.reason, FALSE), approvals)
  ELSE IF req.riskLevel \in cfg.approvalPolicy.autoApprove
    THEN Returns(PermissionResult(TRUE, ReasonNone, req.riskLevel = "MODIFY"), approvals)
  ELSE IF req.riskLevel \notin cfg.approvalPolicy.requireConfirmation
    THEN Returns(PermissionResult(~cfg.approvalPolicy.denyByDefault,
                                  IF cfg.approvalPolicy.denyByDefault
                                    THEN ReasonDeniedByPolicy ELSE ReasonNone,
                                  FALSE), approvals)
  ELSE IF ~limit.ok
    THEN AfterSessionCheck(Returns(PermissionResult(FALSE, ReasonSessionLimit, FALSE),
                                   limit.approvals))
  ELSE IF cb = "set"
    THEN AfterSessionCheck(AwaitsCallback(limit.approvals))
  ELSE AfterSessionCheck(Returns(PermissionResult(FALSE, ReasonNoCallback, FALSE),
                                 limit.approvals))

\* basic guard, the switch on riskLevel
basicRequiresConfirmation(finalConfig, riskLevel) ==
  CASE riskLevel = "READ" -> ~finalConfig.autoApproveRead
    [] riskLevel = "MODIFY" -> ~finalConfig.autoApproveModify
    [] riskLevel = "DELETE" -> finalConfig.requireConfirmationForDelete
    [] riskLevel = "SYSTEM" -> finalConfig.requireConfirmationForSystem

basicRequiresBackup(finalConfig, riskLevel) ==
  riskLevel = "MODIFY" /\ finalConfig.backupBeforeModify

\* as evaluateBasic, granting where no callback is configured
evaluateBasicFailOpen(cfg, cb, approvals, req) ==
  IF req.target # <<>> /\ ~basicIsPathAllowed(cfg.whitelist, req.target)
    THEN Returns(PermissionResult(FALSE, ReasonBasicPathNotAllowed, FALSE), approvals)
  ELSE IF req.action = "shell" /\ req.target # <<>>
          /\ ~basicIsCommandAllowed(cfg.whitelist, req.target)
    THEN Returns(PermissionResult(FALSE, ReasonCommandNotAllowed, FALSE), approvals)
  ELSE IF ~basicRequiresConfirmation(cfg.finalConfig, req.riskLevel)
    THEN Returns(PermissionResult(TRUE, ReasonNone,
                                  basicRequiresBackup(cfg.finalConfig, req.riskLevel)), approvals)
  ELSE IF cb = "set"
    THEN AwaitsCallback(approvals)
  ELSE Returns(PermissionResult(TRUE, ReasonNoCallback, FALSE), approvals)

\* basic guard, evaluate(request) up to the await
evaluateBasic(cfg, cb, approvals, req) ==
  IF req.target # <<>> /\ ~basicIsPathAllowed(cfg.whitelist, req.target)
    THEN Returns(PermissionResult(FALSE, ReasonBasicPathNotAllowed, FALSE), approvals)
  ELSE IF req.action = "shell" /\ req.target # <<>>
          /\ ~basicIsCommandAllowed(cfg.whitelist, req.target)
    THEN Returns(PermissionResult(FALSE, ReasonCommandNotAllowed, FALSE), approvals)
  ELSE IF ~basicRequiresConfirmation(cfg.finalConfig, req.riskLevel)
    THEN Returns(PermissionResult(TRUE, ReasonNone,
                                  basicRequiresBackup(cfg.finalConfig, req.riskLevel)), approvals)
  ELSE IF cb = "set"
    THEN AwaitsCallback(approvals)
  ELSE Returns(PermissionResult(FALSE, ReasonNoCallback, FALSE), approvals)

\* guard.evaluate(request): runs to its return, or to the await of the callback
evaluates(req) ==
  /\ LET expired == sessionExpired(lastActivity)
         out == IF guardConfig.kind = "enhanced"
                  THEN evaluateEnhanced(guardConfig, callback, sessionState, req, expired)
                  ELSE evaluateBasic(guardConfig, callback, sessionState, req)
         reached == IF out.checked /\ expired
                      THEN [t \in ToolNames |-> 0] ELSE callbackReached
     IN /\ sessionState' = out.approvals
        /\ evaluating' = (IF out.awaits THEN "awaiting" ELSE "returned")
        /\ permissionResult' = out.result
        /\ lastActivity' = (IF out.checked THEN "recent" ELSE lastActivity)
        /\ approvalsCleared' =
             (approvalsCleared
                \/ (out.checked /\ expired /\ \E t \in ToolNames : sessionState[t] > 0))
        /\ callbackReached' =
             (IF out.awaits /\ out.checked
                THEN [reached EXCEPT ![req.toolName] = @ + 1] ELSE reached)
  /\ request' = req
  /\ callbackAnswer' = "none"
  /\ UNCHANGED <<guardConfig, callback>>

\* guard.evaluate(request), called while no other evaluation is awaiting
evaluate(req) ==
  /\ evaluating # "awaiting"
  /\ evaluates(req)
  /\ UNCHANGED <<engineVars, besideGuard>>

\* the clock moves on while the guard is not called
timePasses ==
  /\ lastActivity \in {"recent", "limit"}
  /\ lastActivity' = (IF lastActivity = "recent" THEN "limit" ELSE "old")
  /\ UNCHANGED <<engineVars, besideGuard, guardConfig, callback, sessionState, request, evaluating,
                 permissionResult, callbackAnswer, callbackReached, approvalsCleared>>

\* const userApproved = await callback(request), and the return after it
callbackResolves(userApproved) ==
  /\ evaluating = "awaiting"
  /\ evaluating' = "returned"
  /\ callbackAnswer' = (IF userApproved THEN "true" ELSE "false")
  /\ permissionResult' =
       PermissionResult(userApproved,
                        IF userApproved THEN ReasonNone ELSE ReasonUserDenied,
                        IF guardConfig.kind = "enhanced"
                          THEN request.riskLevel = "MODIFY"
                          ELSE basicRequiresBackup(guardConfig.finalConfig, request.riskLevel))
  /\ UNCHANGED <<engineVars, besideGuard, guardConfig, callback, sessionState, request, lastActivity,
                 callbackReached, approvalsCleared>>

\* the callback's promise rejects: evaluate() rejects, no result
callbackRejects ==
  /\ evaluating = "awaiting"
  /\ evaluating' = "rejected"
  /\ callbackAnswer' = "threw"
  /\ UNCHANGED <<engineVars, besideGuard, guardConfig, callback, sessionState, request, permissionResult,
                 lastActivity, callbackReached, approvalsCleared>>

\* guard.setCallback(cb)
setCallback ==
  /\ callback' = "set"
  /\ UNCHANGED <<engineVars, besideGuard, guardConfig, sessionState, request, evaluating, permissionResult,
                 callbackAnswer, lastActivity, callbackReached, approvalsCleared>>

\* an engine that is constructed and never run
EngineIdle ==
  /\ engine = "serial"
  /\ hasFormatter = FALSE
  /\ maxConcurrent = 1
  /\ failFast = FALSE
  /\ plannerMax = MaxSteps
  /\ Constructed

InitGuard ==
  /\ EngineIdle
  /\ RateLimiterConstructed
  /\ OrchestratorConstructed(ORCH_DEFAULT_CONFIG)
  /\ RouterConstructed
  /\ CacheConstructed
  /\ AgentConstructed(MaxIterations)
  /\ \E cfg \in GuardConfigs : GuardConstructed(cfg)

NextGuard ==
  \/ \E req \in PermissionRequests : evaluate(req)
  \/ \E userApproved \in BOOLEAN : callbackResolves(userApproved)
  \/ callbackRejects
  \/ setCallback
  \/ timePasses

SpecGuard == InitGuard /\ [][NextGuard]_vars

\* the enhanced guard over several calls for two tools: requests that name a
\* path or nothing, of an auto-approved and of a confirmed tier
SessionConfigs ==
  [kind : {"enhanced"},
   approvalPolicy : {DEFAULT_APPROVAL_POLICY},
   finalConfig : {DEFAULT_CONFIG},
   whitelist : {EmptyWhitelist, [EmptyWhitelist EXCEPT !.deniedPaths = << <<"R">> >>]},
   maxApprovalsPerSession : 1..MaxSessionApprovals]

SessionRequests ==
  [toolName : ToolNames, action : {"delete"}, target : {<<>>, <<"r">>},
   riskLevel : {"READ", "DELETE"}]

InitSession ==
  /\ EngineIdle
  /\ RateLimiterConstructed
  /\ OrchestratorConstructed(ORCH_DEFAULT_CONFIG)
  /\ RouterConstructed
  /\ CacheConstructed
  /\ AgentConstructed(MaxIterations)
  /\ \E cfg \in SessionConfigs : GuardConstructed(cfg)

NextSession ==
  \/ \E req \in SessionRequests : evaluate(req)
  \/ \E userApproved \in BOOLEAN : callbackResolves(userApproved)
  \/ callbackRejects
  \/ setCallback
  \/ timePasses

SpecSession == InitSession /\ [][NextSession]_vars


\* ------------------------------------------------------- rate limiter
\* getState(toolName): the state of the tool, made on first use
getState(ts, toolName) ==
  IF ts[toolName].present
    THEN ts
    ELSE [ts EXCEPT ![toolName] =
            [present |-> TRUE, calls |-> <<>>,
             config |-> IF toolName \in DOMAIN TOOL_SPECIFIC_CONFIGS
                          THEN TOOL_SPECIFIC_CONFIGS[toolName] ELSE RATE_DEFAULT_CONFIG]]

\* as cleanOldCalls, keeping the call that is exactly windowMs old
cleanOldCallsInclusive(calls, windowMs, time) ==
  SelectSeq(calls, LAMBDA t : t >= time - windowMs)

\* cleanOldCalls(state, now): state.calls after the filter
cleanOldCalls(calls, windowMs, time) ==
  SelectSeq(calls, LAMBDA t : t > time - windowMs)

\* check(toolName) at the given time: the map after it and the result
rateCheck(ts, toolName, time) ==
  LET made == getState(ts, toolName)
      config == made[toolName].config
      calls == cleanOldCalls(made[toolName].calls, config.windowMs, time)
      resetTime == IF Len(calls) > 0 THEN calls[1] + config.windowMs
                                     ELSE time + config.windowMs
  IN [states |-> [made EXCEPT ![toolName].calls = calls],
      result |-> IF Len(calls) >= config.maxCalls
                   THEN RateLimitResult(FALSE, 0, resetTime,
                                        IF Len(calls) > 0
                                          THEN calls[1] + config.windowMs - time
                                          ELSE config.windowMs)
                   ELSE RateLimitResult(TRUE, config.maxCalls - Len(calls), resetTime, -1)]

\* record(toolName) at the given time: the map after it
rateRecord(ts, toolName, time) ==
  LET made == getState(ts, toolName)
  IN [made EXCEPT ![toolName].calls = Append(@, time)]

\* rateLimiter.check(toolName)
check(toolName) ==
  /\ toolStates' = rateCheck(toolStates, toolName, now).states
  /\ lastCheck' = [toolName |-> toolName,
                   result |-> rateCheck(toolStates, toolName, now).result,
                   at |-> now, records |-> Len(recorded[toolName])]
  /\ UNCHANGED <<engineVars, besideRate, now, recorded, configSet>>

\* rateLimiter.record(toolName)
record(toolName) ==
  /\ Len(recorded[toolName]) < MaxRecords
  /\ toolStates' = rateRecord(toolStates, toolName, now)
  /\ recorded' = [recorded EXCEPT ![toolName] = Append(@, now)]
  /\ UNCHANGED <<engineVars, besideRate, now, lastCheck, configSet>>

\* rateLimiter.setConfig(toolName, config); once per tool in the model
setConfig(toolName, config) ==
  /\ ~configSet[toolName]
  /\ toolStates' = [getState(toolStates, toolName) EXCEPT ![toolName].config = config]
  /\ configSet' = [configSet EXCEPT ![toolName] = TRUE]
  /\ UNCHANGED <<engineVars, besideRate, now, recorded, lastCheck>>

\* a millisecond passes
tick ==
  /\ now < MaxTime
  /\ now' = now + 1
  /\ UNCHANGED <<engineVars, besideRate, toolStates, recorded, lastCheck, configSet>>

InitRate ==
  /\ EngineIdle
  /\ ComponentsConstructed

NextRate ==
  \/ \E toolName \in RateTools : check(toolName)
  \/ \E toolName \in RateTools : record(toolName)
  \/ \E toolName \in RateTools, config \in RateConfigs : setConfig(toolName, config)
  \/ tick

SpecRate == InitRate /\ [][NextRate]_vars

\* ------------------------------------------------------- tool orchestrator
\* validator.validateSchema(params, schema): params is an object that has
\* every required key
validateSchema(params, requiredKeys) ==
  [valid |-> params.object /\ requiredKeys \subseteq params.keys]

\* validator.validate(toolName, params)
validate(toolName, params) ==
  IF toolName \notin tools THEN [valid |-> FALSE]
                           ELSE validateSchema(params, required(toolName))

\* errorMessage.includes(word)
messageIncludes(message, word) == \E k \in DOMAIN message : message[k] = word

\* as retryable, whatever the message says
retryableWhateverMessage(retriesLeft, message) == retriesLeft > 0

\* the condition of the catch block under which the round is repeated
retryable(retriesLeft, message) ==
  /\ retriesLeft > 0
  /\ ~messageIncludes(message, "Permission")
  /\ ~messageIncludes(message, "Validation")

\* what checkPermission(tool, params) may resolve with, or that it rejects:
\* true without a guard, else the guard's or onPermissionRequired's answer
checkPermissionAnswers ==
  IF permissionGuard THEN {"true", "false", "rejects"} ELSE {"true"}

HookAnswers == {"true", "false", "rejects"}

\* the part of the state that a round of the pipeline reads and writes
Machine ==
  [ex |-> executions, ts |-> toolStates, xc |-> executorCalls, ac |-> afterCalls,
   ps |-> passed, fl |-> inFlight]

Becomes(m) ==
  /\ executions' = m.ex
  /\ toolStates' = m.ts
  /\ executorCalls' = m.xc
  /\ afterCalls' = m.ac
  /\ passed' = m.ps
  /\ inFlight' = m.fl

\* a return before the try block: failure with retries 0
stopped(m, s, error) ==
  [m EXCEPT !.ex[s].pc = "returned", !.ex[s].result = OrchResult(FALSE, error, 0)]

\* a return from the try or the catch block: onAfterExecute, then the result
finished(m, s, res) ==
  [m EXCEPT !.ex[s].pc = "returned", !.ex[s].result = res,
            !.ac[s] = IF orchEvents.onAfterExecute THEN Append(@, res) ELSE @]

\* executeWithRetry(request, retriesLeft) up to its first await: tool lookup,
\* validation and the rate-limit check
executeWithRetry(m, s, retriesLeft) ==
  LET req == m.ex[s].request
      rateLimit == rateCheck(m.ts, req.toolName, now)
      entered == [m EXCEPT !.ex[s].retriesLeft = retriesLeft]
  IN IF req.toolName \notin tools
       THEN stopped([entered EXCEPT !.ps[s] = <<>>], s, MsgToolNotFound)
     ELSE IF ~validate(req.toolName, req.params).valid
       THEN stopped([entered EXCEPT !.ps[s] = <<"lookup">>], s, MsgValidationFailed)
     ELSE IF ~rateLimit.result.allowed
       THEN stopped([entered EXCEPT !.ps[s] = <<"lookup", "validation">>,
                                    !.ts = rateLimit.states], s, MsgRateLimited)
     ELSE [entered EXCEPT !.ps[s] = <<"lookup", "validation", "rate">>,
                          !.ts = rateLimit.states,
                          !.ex[s].pc = "permission"]

\* the head of the try block: rateLimiter.record, then tool.execute is called
invoke(m, s) ==
  [m EXCEPT !.ts = rateRecord(@, m.ex[s].request.toolName, now),
            !.xc[s] = @ + 1,
            !.fl = @ + 1,
            !.ps[s] = Append(@, "execute"),
            !.ex[s].pc = "executing"]

orchFrame == <<engineVars, besideOrch, now, orchConfig, tools, permissionGuard, orchEvents>>

\* execute(request), in the slot s of the model
execute(s, req) ==
  /\ parallel.state = "idle"
  /\ executions[s].pc \in {"idle", "returned", "rejected"}
  /\ Becomes(executeWithRetry([Machine EXCEPT !.ex[s] = [IdleCall EXCEPT !.request = req],
                                              !.xc[s] = 0, !.ac[s] = <<>>],
                              s, orchConfig.retryCount))
  /\ UNCHANGED <<orchFrame, parallel>>

\* await checkPermission(tool, request.params) settles
permissionSettles(s, answer) ==
  /\ executions[s].pc = "permission"
  /\ answer \in checkPermissionAnswers
  /\ Becomes(CASE answer = "rejects" -> [Machine EXCEPT !.ex[s].pc = "rejected"]
               [] answer = "false" -> stopped(Machine, s, MsgPermissionDenied)
               [] answer = "true" ->
                    LET m == [Machine EXCEPT !.ps[s] = Append(@, "permission")]
                    IN IF orchEvents.onBeforeExecute
                         THEN [m EXCEPT !.ex[s].pc = "before"]
                         ELSE invoke(m, s))
  /\ UNCHANGED <<orchFrame, parallel>>

\* await events.onBeforeExecute(request) settles
beforeSettles(s, answer) ==
  /\ executions[s].pc = "before"
  /\ Becomes(CASE answer = "rejects" -> [Machine EXCEPT !.ex[s].pc = "rejected"]
               [] answer = "false" -> stopped(Machine, s, MsgCancelled)
               [] answer = "true" -> invoke([Machine EXCEPT !.ps[s] = Append(@, "before")], s))
  /\ UNCHANGED <<orchFrame, parallel>>

\* the race of tool.execute against the timeout settles.  After a timeout
\* the promise of tool.execute is still pending
executorSettles(s, outcome) ==
  /\ executions[s].pc = "executing"
  /\ LET retriesLeft == executions[s].retriesLeft
         retries == orchConfig.retryCount - retriesLeft
         m == [Machine EXCEPT !.fl = IF outcome.kind = "timeout" THEN @ ELSE @ - 1]
     IN Becomes(IF outcome.kind = "result"
                  THEN finished(m, s, OrchResult(outcome.success, MsgNone, retries))
                ELSE IF retryable(retriesLeft, outcome.message)
                  THEN [m EXCEPT !.ex[s].pc = "delay"]
                ELSE finished(m, s, OrchResult(FALSE, outcome.message, retries)))
  /\ UNCHANGED <<orchFrame, parallel>>

\* the retryDelay timer fires: executeWithRetry(request, retriesLeft - 1)
retryDelayElapses(s) ==
  /\ executions[s].pc = "delay"
  /\ Becomes(executeWithRetry(Machine, s, executions[s].retriesLeft - 1))
  /\ UNCHANGED <<orchFrame, parallel>>

\* a tool.execute promise that lost the race settles
abandonedSettles ==
  /\ inFlight > Cardinality({s \in Slots : executions[s].pc = "executing"})
  /\ inFlight' = inFlight - 1
  /\ UNCHANGED <<orchFrame, parallel, toolStates, executions, executorCalls, afterCalls, passed>>

\* batch.map(req => this.execute(req)): the calls of the slots from..to, in order
startBatch(m, from, to) ==
  LET RECURSIVE start(_, _)
      start(mm, s) ==
        IF s > to THEN mm
        ELSE start(executeWithRetry(mm, s, orchConfig.retryCount), s + 1)
  IN start(m, from)

\* the last index of the batch that begins at from
batchEnd(requests, from) ==
  IF from + orchConfig.maxParallelCalls - 1 < Len(requests)
    THEN from + orchConfig.maxParallelCalls - 1 ELSE Len(requests)

\* executeParallel(requests): the batches are cut and the first one is started
executeParallel(requests) ==
  /\ parallel.state = "idle"
  /\ \A s \in Slots : executions[s].pc = "idle"
  /\ LET m == [Machine EXCEPT !.ex = [s \in Slots |->
                  IF s <= Len(requests) THEN [IdleCall EXCEPT !.request = requests[s]]
                                        ELSE IdleCall]]
     IN IF Len(requests) = 0
          THEN /\ parallel' = [NoParallel EXCEPT !.state = "returned"]
               /\ Becomes(m)
          ELSE /\ parallel' = [state |-> "running", requests |-> requests, from |-> 1,
                               results |-> <<>>]
               /\ Becomes(startBatch(m, 1, batchEnd(requests, 1)))
  /\ UNCHANGED orchFrame

\* as batchJoins, not waiting for the last request of the batch
batchJoinsEarly ==
  /\ parallel.state = "running"
  /\ LET to == batchEnd(parallel.requests, parallel.from)
         results == parallel.results \o [k \in 1..(to - parallel.from + 1) |->
                                           executions[parallel.from + k - 1].result]
     IN /\ \A s \in parallel.from..(to - 1) : executions[s].pc = "returned"
        /\ executions[to].pc # "rejected"
        /\ IF to = Len(parallel.requests)
             THEN /\ executions[to].pc = "returned"
                  /\ parallel' = [parallel EXCEPT !.state = "returned", !.results = results]
                  /\ Becomes(Machine)
             ELSE /\ parallel' = [parallel EXCEPT !.from = to + 1, !.results = results]
                  /\ Becomes(startBatch(Machine, to + 1, batchEnd(parallel.requests, to + 1)))
  /\ UNCHANGED orchFrame

\* await Promise.all(...) resolves: the results are pushed and the next batch
\* is started, or the results are returned
batchJoins ==
  /\ parallel.state = "running"
  /\ LET to == batchEnd(parallel.requests, parallel.from)
         results == parallel.results \o [k \in 1..(to - parallel.from + 1) |->
                                           executions[parallel.from + k - 1].result]
     IN /\ \A s \in parallel.from..to : executions[s].pc = "returned"
        /\ IF to = Len(parallel.requests)
             THEN /\ parallel' = [parallel EXCEPT !.state = "returned", !.results = results]
                  /\ Becomes(Machine)
             ELSE /\ parallel' = [parallel EXCEPT !.from = to + 1, !.results = results]
                  /\ Becomes(startBatch(Machine, to + 1, batchEnd(parallel.requests, to + 1)))
  /\ UNCHANGED orchFrame

\* await Promise.all(...) rejects with the first rejection of the batch
batchRejects ==
  /\ parallel.state = "running"
  /\ \E s \in parallel.from..batchEnd(parallel.requests, parallel.from) :
       executions[s].pc = "rejected"
  /\ parallel' = [parallel EXCEPT !.state = "rejected"]
  /\ UNCHANGED <<orchFrame, toolStates, executions, executorCalls, afterCalls, passed, inFlight>>

\* registerTool(tool)
registerTool(toolName) ==
  /\ toolName \notin tools
  /\ tools' = tools \cup {toolName}
  /\ UNCHANGED <<engineVars, besideOrch, now, toolStates, orchConfig, permissionGuard, orchEvents,
                 executions, executorCalls, afterCalls, passed, inFlight, parallel>>

\* setPermissionGuard(guard)
setPermissionGuard ==
  /\ ~permissionGuard
  /\ permissionGuard' = TRUE
  /\ UNCHANGED <<engineVars, besideOrch, now, toolStates, orchConfig, tools, orchEvents,
                 executions, executorCalls, afterCalls, passed, inFlight, parallel>>

\* setEvents(newEvents): events = { ...events, ...newEvents }
setEvents(newEvents) ==
  /\ orchEvents' = [h \in DOMAIN orchEvents |-> orchEvents[h] \/ newEvents[h]]
  /\ orchEvents' # orchEvents
  /\ UNCHANGED <<engineVars, besideOrch, now, toolStates, orchConfig, tools, permissionGuard,
                 executions, executorCalls, afterCalls, passed, inFlight, parallel>>

\* execute() calls made one at a time on an orchestrator that is being set up
InitOrch ==
  /\ EngineIdle
  /\ GuardConstructed(DefaultGuardConfig)
  /\ RateLimiterConstructed
  /\ RouterConstructed
  /\ CacheConstructed
  /\ AgentConstructed(MaxIterations)
  /\ \E config \in OrchestratorConfigs :
       config.maxParallelCalls = MaxParallelCalls /\ OrchestratorConstructed(config)

NextOrch ==
  \/ \E toolName \in RateTools : registerTool(toolName)
  \/ setPermissionGuard
  \/ \E newEvents \in OrchestratorEvents : setEvents(newEvents)
  \/ \E req \in ExecutionRequests : execute(1, req)
  \/ \E answer \in HookAnswers : permissionSettles(1, answer)
  \/ \E answer \in HookAnswers : beforeSettles(1, answer)
  \/ \E outcome \in ExecutorOutcomes : executorSettles(1, outcome)
  \/ retryDelayElapses(1)
  \/ abandonedSettles
  \/ tick

SpecOrch == InitOrch /\ [][NextOrch]_vars

\* executeParallel on an orchestrator with its tools registered
BatchRequests ==
  { [toolName |-> "test_tool", params |-> [object |-> TRUE, keys |-> {}]],
    [toolName |-> "shell_execute", params |-> [object |-> TRUE, keys |-> {"command"}]],
    [toolName |-> "shell_execute", params |-> [object |-> TRUE, keys |-> {}]] }

RequestLists == UNION { [1..n -> BatchRequests] : n \in 0..MaxRequests }

InitBatch ==
  /\ EngineIdle
  /\ GuardConstructed(DefaultGuardConfig)
  /\ RateLimiterConstructed
  /\ RouterConstructed
  /\ CacheConstructed
  /\ AgentConstructed(MaxIterations)
  /\ orchConfig \in [maxParallelCalls : 1..MaxParallelCalls, retryCount : 0..1]
  /\ tools = RateTools
  /\ permissionGuard \in BOOLEAN
  /\ orchEvents \in OrchestratorEvents
  /\ executions = [s \in Slots |-> IdleCall]
  /\ executorCalls = [s \in Slots |-> 0]
  /\ afterCalls = [s \in Slots |-> <<>>]
  /\ passed = [s \in Slots |-> <<>>]
  /\ inFlight = 0
  /\ parallel = NoParallel

NextBatch ==
  \/ \E requests \in RequestLists : executeParallel(requests)
  \/ \E s \in Slots, answer \in HookAnswers : permissionSettles(s, answer)
  \/ \E s \in Slots, answer \in HookAnswers : beforeSettles(s, answer)
  \/ \E s \in Slots, outcome \in ExecutorOutcomes : executorSettles(s, outcome)
  \/ \E s \in Slots : retryDelayElapses(s)
  \/ abandonedSettles
  \/ batchJoins
  \/ batchRejects

SpecBatch == InitBatch /\ [][NextBatch]_vars

\* The shell tool behind the enhanced guard: an orchestrator with its tools
\* registered and the guard installed by setPermissionGuard, one execute()
\* call at a time.  evaluate() is called by checkPermission in the same
\* turn in which the round passes the rate-limit check.
GuardedConfigs ==
  [kind : {"enhanced"}, approvalPolicy : {DEFAULT_APPROVAL_POLICY}, finalConfig : {DEFAULT_CONFIG},
   whitelist : { [EmptyWhitelist EXCEPT !.deniedCommands = list] :
                   list \in {<<>>, << <<"R">> >>, << <<"r", " ">> >>} },
   maxApprovalsPerSession : {MaxApprovals}]

ShellRequest == [toolName |-> "shell_execute", params |-> [object |-> TRUE, keys |-> {"command"}]]

\* checkPermission: the PermissionRequest made of the tool and its
\* parameters; target is params.path ?? params.target ?? params.command and
\* riskLevel is that of createShellTool
permissionRequest(toolName, target) ==
  [toolName |-> toolName, action |-> toolName, target |-> target, riskLevel |-> "SYSTEM"]

\* the round m has reached `await checkPermission(tool, request.params)`
reachesGuard(m, command) ==
  IF m.ex[1].pc = "permission"
    THEN evaluates(permissionRequest(m.ex[1].request.toolName, command))
    ELSE UNCHANGED guardVars

guardedFrame ==
  <<engineVars, recorded, lastCheck, configSet, routerVars, agentVars, cacheVars, now,
    orchConfig, tools, permissionGuard, orchEvents, parallel>>

\* orchestrator.execute({ toolName: 'shell_execute', params: { command } })
guardedExecute(command) ==
  /\ executions[1].pc \in {"idle", "returned", "rejected"}
  /\ LET m == executeWithRetry([Machine EXCEPT !.ex[1] = [IdleCall EXCEPT !.request = ShellRequest],
                                               !.xc[1] = 0, !.ac[1] = <<>>],
                               1, orchConfig.retryCount)
     IN Becomes(m) /\ reachesGuard(m, command)
  /\ UNCHANGED guardedFrame

\* what checkPermission resolves with once evaluate() has settled: its
\* rejection, the answer of events.onPermissionRequired to a denial where
\* that hook is set (hook # "none"), else result.granted
checkPermissionAnswer(hook) ==
  IF evaluating = "rejected" THEN "rejects"
  ELSE IF permissionResult.granted THEN "true"
  ELSE IF hook # "none" THEN hook
  ELSE "false"

guardedPermissionSettles(hook) ==
  /\ evaluating \in {"returned", "rejected"}
  /\ permissionSettles(1, checkPermissionAnswer(hook))

\* the retryDelay timer fires: the next round, with the same parameters
guardedRetry ==
  /\ executions[1].pc = "delay"
  /\ LET m == executeWithRetry(Machine, 1, executions[1].retriesLeft - 1)
     IN Becomes(m) /\ reachesGuard(m, request.target)
  /\ UNCHANGED guardedFrame

InitGuarded ==
  /\ EngineIdle
  /\ \E cfg \in GuardedConfigs : GuardConstructed(cfg)
  /\ RateLimiterConstructed
  /\ RouterConstructed
  /\ CacheConstructed
  /\ AgentConstructed(MaxIterations)
  /\ orchConfig \in [maxParallelCalls : {MaxParallelCalls}, retryCount : 0..1]
  /\ tools = RateTools
  /\ permissionGuard = TRUE
  /\ orchEvents \in {e \in OrchestratorEvents : ~e.onAfterExecute}
  /\ executions = [s \in Slots |-> IdleCall]
  /\ executorCalls = [s \in Slots |-> 0]
  /\ afterCalls = [s \in Slots |-> <<>>]
  /\ passed = [s \in Slots |-> <<>>]
  /\ inFlight = 0
  /\ parallel = NoParallel

NextGuarded ==
  \/ \E command \in Strings(MaxTargetLen) : guardedExecute(command)
  \/ setCallback
  \/ \E userApproved \in BOOLEAN : callbackResolves(userApproved)
  \/ callbackRejects
  \/ \E hook \in {"none"} \cup HookAnswers : guardedPermissionSettles(hook)
  \/ \E answer \in HookAnswers : beforeSettles(1, answer)
  \/ \E outcome \in ExecutorOutcomes : executorSettles(1, outcome)
  \/ guardedRetry
  \/ abandonedSettles
  \/ tick

SpecGuarded == InitGuarded /\ [][NextGuarded]_vars

\* ------------------------------------------------------- intent router
\* the patterns of the source that the characters of the model can spell,
\* each as RegExp.prototype.test on a string

\* /^hi[!\s]?$/i of CHAT_PATTERNS
testHi(str) ==
  toLowerCase(str) = <<"h", "i">> \/ toLowerCase(str) = <<"h", "i", " ">>

\* /ip/i of SYSTEM_QUERY_RULES, queryType network
testIp(str) == includes(toLowerCase(str), <<"i", "p">>)

\* /ls\s+/i of FILE_OPERATION_RULES, operation list
testLs(str) == includes(toLowerCase(str), <<"l", "s", " ">>)

\* /^[a-z]+\s+-/ of the shell command indicators
testLettersBlanksHyphen(str) ==
  \E a \in 1..Len(str), b \in 1..Len(str) :
    /\ a < b /\ b < Len(str)
    /\ \A k \in 1..a : str[k] \in LowerLetters
    /\ \A k \in (a + 1)..b : str[k] = " "
    /\ str[b + 1] = "-"

\* /if/i of complexIndicators
testIf(str) == includes(toLowerCase(str), <<"i", "f">>)

\* detect(input)
detect(input) ==
  LET trimmedInput == trim(input)
      lowerInput == toLowerCase(trimmedInput)
  IN IF testHi(trimmedInput) \/ testHi(lowerInput)
       THEN IntentResult("chat", 90, TRUE)
     ELSE IF testIp(trimmedInput) \/ testIp(lowerInput)
       THEN IntentResult("system_query", 95, FALSE)
     ELSE IF testLs(trimmedInput) \/ testLs(lowerInput)
       THEN IntentResult("file_operation", 85, FALSE)
     ELSE IF testLettersBlanksHyphen(trimmedInput)
       THEN IntentResult("shell_command", 80, TRUE)
     ELSE IF testIf(trimmedInput) \/ testIf(lowerInput)
       THEN IntentResult("complex_task", 90, TRUE)
     ELSE IF Len(trimmedInput) < ChatLength
       THEN IntentResult("chat", 60, TRUE)
     ELSE IntentResult("complex_task", 70, TRUE)

\* as isFastPath, for an intent of any type
isFastPathAnyType(intent) == ~intent.needsLLM

\* isFastPath(intent)
isFastPath(intent) == ~intent.needsLLM /\ intent.type = "system_query"

\* a call of router.detect(input); one call in the model
routerDetect(input) ==
  /\ ~routed.called
  /\ routed' = [called |-> TRUE, input |-> input, intent |-> detect(input)]
  /\ UNCHANGED <<engineVars, besideRouter, fastPathCheck>>

\* a call of router.isFastPath(intent)
routerIsFastPath(intent) ==
  /\ fastPathCheck' = [called |-> TRUE, intent |-> intent, answer |-> isFastPath(intent)]
  /\ UNCHANGED <<engineVars, besideRouter, routed>>

InitRouter ==
  /\ EngineIdle
  /\ ComponentsConstructed

NextRouter ==
  \/ \E input \in Inputs : routerDetect(input)
  \/ \E intent \in IntentResults : routerIsFastPath(intent)
  \/ routed.called /\ routerIsFastPath(routed.intent)

SpecRouter == InitRouter /\ [][NextRouter]_vars

\* -------------------------------------------------------------- TTL cache
\* as isExpired, from exactly ttl on
isExpiredAtTtl(entry, time) == time - entry.timestamp >= entry.ttl
\* Date.now() - entry.timestamp > entry.ttl
isExpired(entry, time) == time - entry.timestamp > entry.ttl

\* get(key) and has(key): the entry is looked up, an expired one is deleted
cacheLookup(op, key) ==
  LET entry == cache[key]
  IN  /\ IF ~entry.present
           THEN /\ lookup' = [op |-> op, key |-> key, found |-> FALSE, value |-> "", at |-> cacheNow]
                /\ cache' = cache
           ELSE IF isExpired(entry, cacheNow)
             THEN /\ lookup' = [op |-> op, key |-> key, found |-> FALSE, value |-> "", at |-> cacheNow]
                  /\ cache' = [cache EXCEPT ![key] = NoEntry]
             ELSE /\ lookup' = [op |-> op, key |-> key, found |-> TRUE,
                                \* has() returns true and no value
                                value |-> IF op = "get" THEN entry.value ELSE "",
                                at |-> cacheNow]
                  /\ cache' = cache
      /\ UNCHANGED <<engineVars, besideCache, cacheNow, lastSet>>

cacheGet(key) == cacheLookup("get", key)

cacheHas(key) == cacheLookup("has", key)

\* set(key, value, ttl)
cacheSet(key, value, ttl) ==
  /\ cache' = [cache EXCEPT ![key] = CacheEntry(value, cacheNow, ttl)]
  /\ lastSet' = [lastSet EXCEPT ![key] = CacheEntry(value, cacheNow, ttl)]
  /\ UNCHANGED <<engineVars, besideCache, cacheNow, lookup>>

\* clear()
cacheClear ==
  /\ cache' = [k \in CacheKeys |-> NoEntry]
  /\ lastSet' = [k \in CacheKeys |-> NoEntry]
  /\ UNCHANGED <<engineVars, besideCache, cacheNow, lookup>>

\* a second passes
cacheTick ==
  /\ cacheNow < MaxCacheTime
  /\ cacheNow' = cacheNow + 1
  /\ UNCHANGED <<engineVars, besideCache, cache, lookup, lastSet>>

InitCache ==
  /\ EngineIdle
  /\ ComponentsConstructed

NextCache ==
  \/ \E key \in CacheKeys : cacheGet(key)
  \/ \E key \in CacheKeys : cacheHas(key)
  \/ \E key \in CacheKeys, value \in CacheValues, toolName \in CacheTools :
       cacheSet(key, value, getTTL(toolName))
  \/ cacheClear
  \/ cacheTick

SpecCache == InitCache /\ [][NextCache]_vars

\* ------------------------------------------------------------------ agent
\* the part of the state that execute() reads and writes
AgentState == [pl |-> planObjects, ex |-> executeCall]

AgentBecomes(a) ==
  /\ planObjects' = a.pl
  /\ executeCall' = a.ex

\* after the loop: plan.status = allStepsCompleted ? 'completed' : 'failed'
afterLoop(a) ==
  [a EXCEPT !.pl[a.ex.plan].status = IF a.ex.allStepsCompleted THEN "completed" ELSE "failed",
            !.ex.pc = "returned",
            !.ex.success = a.ex.allStepsCompleted]

\* the for loop of execute() from step i up to its next await
RECURSIVE loop(_, _)
loop(a, n) ==
  LET p == a.ex.plan
      planSteps == a.pl[p].steps
  IN IF n > Len(planSteps) THEN afterLoop(a)
     ELSE IF a.ex.iteration + 1 > agentConfig.maxIterations
       THEN afterLoop([a EXCEPT !.ex.iteration = @ + 1, !.pl[p].status = "failed"])
     ELSE LET b == [a EXCEPT !.ex.iteration = @ + 1, !.ex.i = n,
                             !.pl[p].steps[n].status = "running"]
          IN IF planSteps[n].toolName \notin AgentTools
               THEN LET c == [b EXCEPT !.pl[p].steps[n].status = "failed",
                                       !.ex.allStepsCompleted = FALSE]
                    IN IF agentConfig.onStepExecuted
                         THEN [c EXCEPT !.ex.pc = "step_callback"]
                         ELSE loop(c, n + 1)
               ELSE [b EXCEPT !.ex.pc = "permission"]

\* the end of an iteration: onStepExecuted if set, then the next step
stepDone(a) ==
  IF agentConfig.onStepExecuted THEN [a EXCEPT !.ex.pc = "step_callback"]
                                ELSE loop(a, a.ex.i + 1)

agentFrame == <<engineVars, besideAgent, agentConfig>>

\* as Agent_execute, returning early for a plan that is not pending
Agent_executePendingOnly ==
  /\ executeCall.pc \in {"idle", "returned", "rejected"}
  /\ IF sessionPlan = 0 \/ planObjects[sessionPlan].status # "pending"
       THEN AgentBecomes([AgentState EXCEPT !.ex = [IdleExecuteCall EXCEPT !.pc = "returned",
                                                                     !.plan = sessionPlan]])
       ELSE AgentBecomes(loop([AgentState EXCEPT
                                 !.ex = [IdleExecuteCall EXCEPT !.plan = sessionPlan],
                                 !.pl[sessionPlan].status = "running"], 1))
  /\ UNCHANGED <<agentFrame, sessionPlan, planCall>>

\* Agent.execute(session) up to its first await
Agent_execute ==
  /\ executeCall.pc \in {"idle", "returned", "rejected"}
  /\ IF sessionPlan = 0 \/ planObjects[sessionPlan].status = "cancelled"
       THEN AgentBecomes([AgentState EXCEPT !.ex = [IdleExecuteCall EXCEPT !.pc = "returned",
                                                                     !.plan = sessionPlan]])
       ELSE AgentBecomes(loop([AgentState EXCEPT
                                 !.ex = [IdleExecuteCall EXCEPT !.plan = sessionPlan],
                                 !.pl[sessionPlan].status = "running"], 1))
  /\ UNCHANGED <<agentFrame, sessionPlan, planCall>>

\* await this.permissionGuard.evaluate(permissionRequest) settles
guardEvaluateSettles(answer) ==
  /\ executeCall.pc = "permission"
  /\ LET p == executeCall.plan
         n == executeCall.i
     IN AgentBecomes(
          CASE answer = "rejects" -> [AgentState EXCEPT !.ex.pc = "rejected"]
            [] answer = "false" -> stepDone([AgentState EXCEPT !.pl[p].steps[n].status = "skipped"])
            [] answer = "true" -> [AgentState EXCEPT !.ex.pc = "tool"])
  /\ UNCHANGED <<agentFrame, sessionPlan, planCall>>

\* await tool.execute(step.params, context) settles, after the backup if any
toolExecuteSettles(outcome) ==
  /\ executeCall.pc = "tool"
  /\ LET p == executeCall.plan
         n == executeCall.i
     IN AgentBecomes(
          IF outcome = "success"
            THEN stepDone([AgentState EXCEPT !.pl[p].steps[n].status = "completed"])
            ELSE stepDone([AgentState EXCEPT !.pl[p].steps[n].status = "failed",
                                             !.ex.allStepsCompleted = FALSE]))
  /\ UNCHANGED <<agentFrame, sessionPlan, planCall>>

\* await this.onStepExecuted(step, i, totalSteps) settles
onStepExecutedSettles(resolves) ==
  /\ executeCall.pc = "step_callback"
  /\ AgentBecomes(IF resolves THEN loop(AgentState, executeCall.i + 1)
                              ELSE [AgentState EXCEPT !.ex.pc = "rejected"])
  /\ UNCHANGED <<agentFrame, sessionPlan, planCall>>

\* Agent.plan(session) up to await this.llmProvider.complete
Agent_plan ==
  /\ planCall.pc \in {"idle", "returned", "rejected"}
  /\ \E p \in PlanIds : planObjects[p].status = "none"
  /\ planCall' = [pc |-> "llm", plan |-> 0]
  /\ UNCHANGED <<agentFrame, sessionPlan, planObjects, executeCall>>

\* llmProvider.complete resolves: the plan is made and stored in the session
llmCompletes(toolCalls) ==
  /\ planCall.pc = "llm"
  /\ LET p == CHOOSE q \in PlanIds :
                /\ planObjects[q].status = "none"
                /\ \A r \in PlanIds : r < q => planObjects[r].status # "none"
     IN /\ planObjects' = [planObjects EXCEPT ![p] = NewPlan(toolCalls)]
        /\ sessionPlan' = p
        /\ planCall' = [pc |-> IF agentConfig.onPlanCreated THEN "plan_callback" ELSE "returned",
                        plan |-> p]
  /\ UNCHANGED <<agentFrame, executeCall>>

\* llmProvider.complete rejects
llmRejects ==
  /\ planCall.pc = "llm"
  /\ planCall' = [planCall EXCEPT !.pc = "rejected"]
  /\ UNCHANGED <<agentFrame, sessionPlan, planObjects, executeCall>>

\* await this.onPlanCreated(plan) settles
onPlanCreatedSettles(answer) ==
  /\ planCall.pc = "plan_callback"
  /\ planCall' = [planCall EXCEPT !.pc = IF answer = "rejects" THEN "rejected" ELSE "returned"]
  /\ planObjects' = IF answer = "false"
                      THEN [planObjects EXCEPT ![planCall.plan].status = "cancelled"]
                      ELSE planObjects
  /\ UNCHANGED <<agentFrame, sessionPlan, executeCall>>

\* setPlanCallback(callback)
setPlanCallback ==
  /\ ~agentConfig.onPlanCreated
  /\ agentConfig' = [agentConfig EXCEPT !.onPlanCreated = TRUE]
  /\ UNCHANGED <<engineVars, besideAgent, sessionPlan, planObjects, planCall, executeCall>>

\* setStepCallback(callback)
setStepCallback ==
  /\ ~agentConfig.onStepExecuted
  /\ agentConfig' = [agentConfig EXCEPT !.onStepExecuted = TRUE]
  /\ UNCHANGED <<engineVars, besideAgent, sessionPlan, planObjects, planCall, executeCall>>

InitAgent ==
  /\ EngineIdle
  /\ GuardConstructed(DefaultGuardConfig)
  /\ RateLimiterConstructed
  /\ OrchestratorConstructed(ORCH_DEFAULT_CONFIG)
  /\ RouterConstructed
  /\ CacheConstructed
  /\ \E maxIterations \in 1..MaxIterations : AgentConstructed(maxIterations)

NextAgent ==
  \/ setPlanCallback
  \/ setStepCallback
  \/ Agent_plan
  \/ \E toolCalls \in ToolCallLists : llmCompletes(toolCalls)
  \/ llmRejects
  \/ \E answer \in HookAnswers : onPlanCreatedSettles(answer)
  \/ Agent_execute
  \/ \E answer \in HookAnswers : guardEvaluateSettles(answer)
  \/ \E outcome \in {"success", "failure", "throws"} : toolExecuteSettles(outcome)
  \/ \E resolves \in BOOLEAN : onStepExecutedSettles(resolves)

SpecAgent == InitAgent /\ [][NextAgent]_vars

\* =================================================================== claims
HighRisk(step) == step.riskLevel \in {"SYSTEM", "DELETE"}
LowRisk(step) == step.riskLevel \in {"READ", "MODIFY"}

HasEvent(t, k) == \E n \in 1..Len(events) : events[n].type = t /\ events[n].idx = k
NoEvent(t) == \A n \in 1..Len(events) : events[n].type # t

\* the step indices of the events of type t, in emission order
EventIdx(t) ==
  LET sel == SelectSeq(events, LAMBDA e : e.type = t)
  IN  [n \in 1..Len(sel) |-> sel[n].idx]

\* the indices of the SYSTEM / DELETE steps of the plan, in plan order
HighRiskIdx ==
  SelectSeq([k \in 1..Len(steps) |-> k], LAMBDA k : HighRisk(steps[k]))

StrictlyIncreasing(sq) == \A m, n \in 1..Len(sq) : m < n => sq[m] < sq[n]

\* the events a step appends
AddedEvents == { events'[n] : n \in (Len(events) + 1)..Len(events') }

\* ---- C1: when every step of the plan has riskLevel READ or MODIFY, the
\* engine (serial or enhanced) never emits a confirm_permission event.
C1_NoPromptForLowRisk ==
  (\A k \in 1..Len(steps) : LowRisk(steps[k])) => NoEvent("confirm_permission")

C1_Witness ==
  /\ Len(steps) >= 2
  /\ \A k \in 1..Len(steps) : LowRisk(steps[k]) /\ execCalls[k] = 1
  /\ result.returned /\ result.success
  /\ engine = "enhanced"

\* ---- C2: in a serial run with the plan approved and no cancel(), exactly
\* one confirm_permission event is emitted per SYSTEM or DELETE step, and
\* these events come in plan order.
C2_OnePromptPerHighRiskStep ==
  engine = "serial" =>
    /\ StrictlyIncreasing(EventIdx("confirm_permission"))
    /\ \A n \in 1..Len(EventIdx("confirm_permission")) :
         HighRisk(steps[EventIdx("confirm_permission")[n]])
    /\ (pc = "done" /\ planApproved = "yes" /\ ~cancelInRun)
         => EventIdx("confirm_permission") = HighRiskIdx

C2_Witness ==
  /\ engine = "serial" /\ pc = "done" /\ planApproved = "yes" /\ ~cancelInRun
  /\ Len(steps) = 2
  /\ steps[1].riskLevel = "DELETE" /\ steps[2].riskLevel = "SYSTEM"
  /\ EventIdx("confirm_permission") = <<1, 2>>

\* ---- C3: if the plan confirmation is answered false, the run returns
\* success=false with the user-cancelled reason, the executor is never
\* invoked and no step_start or confirm_permission event is emitted.
C3_PlanRejected ==
  planApproved = "no" =>
    /\ \A k \in 1..Len(steps) : execCalls[k] = 0
    /\ NoEvent("step_start") /\ NoEvent("confirm_permission")
    /\ result.returned => result = ExecutionResult(FALSE, ErrUserCancelled, <<>>)

C3_Witness ==
  /\ planApproved = "no" /\ resolvedBy.plan = "confirmPlan"
  /\ result.returned /\ ~result.success
  /\ Len(steps) >= 1 /\ HighRisk(steps[1])

\* ---- C4: if a step's permission confirmation is answered false, the step
\* result is success=false with the user-denied error, the executor is not
\* invoked for that step, and the serial engine goes on to the next step.
C4_DeniedStepSkipped ==
  engine = "serial" =>
    \A k \in 1..Len(steps) :
      permissionApproved[k] = "no" =>
        /\ execCalls[k] = 0
        /\ Len(stepResults) >= k
             => stepResults[k] = StepResult(steps[k].id, FALSE, ErrUserDenied)
        /\ (Len(stepResults) >= k /\ k < Len(steps) /\ ~cancelInRun)
             => HasEvent("step_start", k + 1)
        /\ (pc = "done" /\ ~cancelInRun) => Len(result.steps) = Len(steps)

C4_Witness ==
  /\ engine = "serial" /\ pc = "done" /\ ~cancelInRun
  /\ Len(steps) = 2
  /\ permissionApproved[1] = "no" /\ resolvedBy.perm[1] = "confirmPermission"
  /\ execCalls[1] = 0 /\ execCalls[2] = 1
  /\ result.steps[1].error = ErrUserDenied

\* ---- C5: if a step's executor throws, the step is recorded with
\* success=false and the thrown message, every later step is still
\* attempted, and the executor is never invoked twice for the same step.
C5_ExecutorErrorContinues ==
  engine = "serial" =>
    \A k \in 1..Len(steps) :
      /\ execCalls[k] <= 1
      /\ execOutcome[k] = "throw" =>
           /\ Len(stepResults) >= k
                => stepResults[k] = StepResult(steps[k].id, FALSE, ErrThrown)
           /\ (Len(stepResults) >= k /\ k < Len(steps) /\ ~cancelInRun)
                => HasEvent("step_start", k + 1)
           /\ (pc = "done" /\ ~cancelInRun) =>
                /\ Len(result.steps) = Len(steps)
                /\ \A j \in (k + 1)..Len(steps) :
                     /\ HasEvent("step_start", j)
                     /\ (LowRisk(steps[j]) \/ permissionApproved[j] = "yes")
                          => execCalls[j] = 1

C5_Witness ==
  /\ engine = "serial" /\ pc = "done" /\ ~cancelInRun
  /\ Len(steps) = 2
  /\ execOutcome[1] = "throw" /\ execOutcome[2] = "ok"
  /\ execCalls = <<1, 1>>
  /\ ~result.success

\* ---- C6: for every run that reaches step execution, the returned
\* success is true iff every step of the plan has a step result with
\* success=true (a missing step result makes the run unsuccessful).
C6_SuccessIffEveryStepSucceeded ==
  (result.returned /\ planApproved = "yes"
     /\ \E n \in 1..Len(events) : events[n] = StatusEvent("executing"))
    => (result.success <=>
          \A k \in 1..Len(steps) :
            \E n \in 1..Len(result.steps) :
              result.steps[n].stepId = steps[k].id /\ result.steps[n].success)

\* the same for the serial engine alone
C6_SerialSuccessIffEveryStepSucceeded ==
  engine = "serial" => C6_SuccessIffEveryStepSucceeded

\* ---- C7: at every point of a run at most one confirmation is
\* outstanding, and every awaiting caller still owns the resolver held in
\* pendingConfirm (no waiting step loses its resolver).
Waiters ==
  (IF pc = "wait_plan" THEN {0} ELSE {})
    \cup (IF engine = "serial" /\ pc = "wait_perm" THEN {i} ELSE {})
    \cup (IF engine = "enhanced" THEN {k \in 1..Len(sst) : sst[k] = "wait_perm"} ELSE {})

C7_OneOutstandingConfirmation ==
  /\ Cardinality(Waiters) <= 1
  /\ \A w \in Waiters : pendingConfirm.type # "none" /\ pendingConfirm.owner = w

\* ---- C8: confirmPermission while a plan confirmation is pending,
\* confirmPlan while a permission confirmation is pending, or either while
\* nothing is pending changes nothing: the pending confirmation stays
\* pending and the engine neither advances nor emits an event.
C8_WrongConfirmIsNoOp ==
  [][(~noopCalled /\ noopCalled') =>
       UNCHANGED <<cfgVars, componentVars, pendingConfirm, cancelled, eventQueue, eventResolver, pc, steps,
                   i, stepResults, planApproved, permissionApproved, sst, cstate, delivered,
                   events, execCalls, execOutcome, cancelInRun, resolvedBy, formatterOutcome,
                   result>>]_vars

C8_Witness ==
  /\ noopCalled
  /\ pendingConfirm.type = "plan" /\ pc = "wait_plan"
  /\ planApproved = "unset"

\* ---- C9: after cancel() during a run, a pending confirmation is resolved
\* as false at once, and from then on the engine starts nothing new: no
\* executor invocation begins and no step_start or confirm_permission event
\* is emitted after the cancel.
C9_CancelStopsRun ==
  /\ [][(cancelInRun /\ cancelInRun') =>
          /\ \A k \in DOMAIN execCalls' :
               execCalls'[k] = IF k \in DOMAIN execCalls THEN execCalls[k] ELSE 0
          /\ \A e \in AddedEvents : e.type \notin {"step_start", "confirm_permission"}]_vars
  /\ [](resolvedBy.plan = "cancel" => planApproved = "no")
  /\ [](\A k \in 1..Len(steps) : resolvedBy.perm[k] = "cancel" => permissionApproved[k] = "no")

\* the last clause of C9: a run in which cancel() was called ends with success=false
C9_CancelledRunFails ==
  (cancelInRun /\ result.returned) => ~result.success

\* ---- C10: cancel() on an engine whose run has completed emits no event
\* and has no lasting effect: a later run starts with the flag cleared, so
\* the flag is set during a run only if cancel() was called in that run.
\* (An executor call that lost the race against its timeout may still settle
\* after the run; that is the executor's doing and is not counted here.)
C10_CancelAfterCompletion ==
  /\ [][(RunCompleted /\ RunCompleted' /\ ~ENABLED EnhExecutorSettleLate) =>
          UNCHANGED <<cfgVars, componentVars, pendingConfirm, eventQueue, eventResolver, pc, steps, i,
                      stepResults, planApproved, permissionApproved, sst, cstate, delivered,
                      events, execCalls, execOutcome, cancelInRun, resolvedBy, formatterOutcome,
                      result>>]_vars
  /\ [][(RunCompleted /\ RunCompleted') =>
          UNCHANGED <<cfgVars, componentVars, pendingConfirm, eventQueue, eventResolver, pc, steps, i,
                      stepResults, planApproved, permissionApproved, sst, cstate, delivered,
                      events, execCalls, cancelInRun, resolvedBy, formatterOutcome, result>>]_vars
  /\ []((RunActive /\ cancelled) => cancelInRun)

C10_Witness ==
  RunCompleted /\ cancelled /\ ~cancelInRun /\ result.returned /\ result.success

\* the planner's promise was rejected with a thrown error (not the timeout)
PlannerThrew ==
  \E n \in 1..Len(events) : events[n] = ErrorEvent(ErrThrown)

\* ---- C11: if the planner throws, the engine emits an error event carrying
\* the thrown message and a failed result event, and returns success=false:
\* no confirm_plan event is emitted, no confirmation is awaited and the
\* executor is never invoked.
C11_PlannerFailure ==
  PlannerThrew =>
    /\ NoEvent("confirm_plan") /\ NoEvent("step_start") /\ NoEvent("confirm_permission")
    /\ Waiters = {} /\ planApproved = "unset"
    /\ steps = <<>> /\ execCalls = <<>>
    /\ result.returned =>
         /\ result = ExecutionResult(FALSE, ErrPlanFailed, <<>>)
         /\ \E n \in 1..Len(events) : events[n].type = "result" /\ ~events[n].ok

\* C11 without the result event: what both engines do when the planner throws
C11_PlannerFailureReturnsFailed ==
  PlannerThrew =>
    /\ NoEvent("confirm_plan") /\ NoEvent("step_start") /\ NoEvent("confirm_permission")
    /\ Waiters = {} /\ planApproved = "unset"
    /\ steps = <<>> /\ execCalls = <<>>
    /\ result.returned => result = ExecutionResult(FALSE, ErrPlanFailed, <<>>)
    /\ engine = "enhanced" => events[Len(events)] = ResultEvent(FALSE, ErrPlanFailed)

\* the planner resolved with an empty plan in a run without cancel()
PlannerReturnedEmptyPlan ==
  /\ steps = <<>> /\ NoEvent("error") /\ ~cancelInRun
  /\ pc \notin {"idle", "y_status_planning", "planner"}

\* ---- C12: if the planner returns a plan with zero steps, the engine emits
\* no confirm_plan event, waits for no confirmation, and finishes with
\* success=true and an empty step list.
C12_EmptyPlanSucceeds ==
  PlannerReturnedEmptyPlan =>
    /\ NoEvent("confirm_plan")
    /\ Waiters = {} /\ planApproved = "unset"
    /\ result.returned => result = ExecutionResult(TRUE, ErrNone, <<>>)

\* the same for the enhanced engine alone
C12_EnhancedEmptyPlanSucceeds ==
  engine = "enhanced" =>
    /\ C12_EmptyPlanSucceeds
    /\ PlannerReturnedEmptyPlan => result = ExecutionResult(TRUE, ErrNone, <<>>)

\* the formatter has been called in this run
FormatterInvoked == pc = "formatter" \/ formatterOutcome # "none"

ResultEvents == SelectSeq(events, LAMBDA e : e.type = "result")

\* ---- C13: after all steps have been processed, the formatter is invoked
\* exactly when a formatter was supplied and at least one step succeeded; if
\* the formatter throws, the run does not fail for it and the result event
\* carries the raw step results instead of formatted text.
C13_FormatterInvokedIffUseful ==
  /\ FormatterInvoked =>
       /\ hasFormatter
       /\ \E k \in 1..Len(stepResults) : stepResults[k].success
       /\ engine = "serial" => Len(stepResults) = Len(steps)
       /\ engine = "enhanced" => \A k \in 1..Len(sst) : sst[k] \in {"none", "done"}
  /\ (planApproved = "yes" /\ Len(ResultEvents) > 0 /\ hasFormatter
        /\ \E k \in 1..Len(stepResults) : stepResults[k].success)
       => FormatterInvoked
  /\ formatterOutcome = "ok" =>
       Len(ResultEvents) = 1 /\ ResultEvents[1].info = "formatted"
  /\ formatterOutcome = "throw" =>
       /\ Len(ResultEvents) = 1 /\ ResultEvents[1].info = "raw"
       /\ (result.returned /\ ~cancelInRun) =>
            /\ result.error = ErrNone
            /\ result.steps = stepResults
            /\ result.success <=> \A k \in 1..Len(stepResults) : stepResults[k].success

C13_Witness ==
  /\ formatterOutcome = "throw" /\ result.returned /\ ~cancelInRun
  /\ Len(steps) = 2
  /\ stepResults[1].success /\ ~stepResults[2].success
  /\ ResultEvents[1].info = "raw"

\* execute() has returned from a run of the enhanced engine that reached
\* step execution with a plan of independent steps only
IndependentPlanRan ==
  /\ engine = "enhanced" /\ Len(steps) >= 1
  /\ \A k \in 1..Len(steps) : isIndependentStep(steps[k])
  /\ planApproved = "yes" /\ result.returned
  /\ \E n \in 1..Len(events) : events[n] = StatusEvent("executing")

\* the executor ran once per step and the returned array is aligned with the plan
InvokedOnceAndAligned ==
  /\ \A k \in 1..Len(steps) : execCalls[k] = 1
  /\ Len(result.steps) = Len(steps)
  /\ \A k \in 1..Len(steps) : result.steps[k].stepId = steps[k].id

\* ---- C14: for a plan of N independent steps run by the enhanced engine
\* with concurrency limit k (plan approved), the executor is invoked exactly
\* N times and the returned steps array has length N with steps[i].stepId
\* equal to the id of the i-th plan step, whatever the completion order.
C14_IndexAlignment ==
  IndependentPlanRan => InvokedOnceAndAligned

\* the same for runs that are not cut short: no cancel(), failFast off and
\* no permission confirmation answered false
C14_IndexAlignmentOfFullRuns ==
  (IndependentPlanRan /\ ~cancelInRun /\ ~failFast
     /\ \A k \in 1..Len(steps) : permissionApproved[k] # "no")
    => InvokedOnceAndAligned

\* a full run whose second step completed before its first
C14_FullRunOutOfOrder ==
  /\ IndependentPlanRan /\ ~cancelInRun /\ ~failFast
  /\ Len(steps) = 2 /\ maxConcurrent = 2
  /\ EventIdx("step_complete") = <<2, 1>>
  /\ InvokedOnceAndAligned

Started(k) == HasEvent("step_start", k)
Completed(k) == HasEvent("step_complete", k)
Independent == {k \in 1..Len(steps) : isIndependentStep(steps[k])}
Dependent == {k \in 1..Len(steps) : ~isIndependentStep(steps[k])}

\* the position in the event history of step k's event of type t (0: none)
EventPos(t, k) ==
  IF HasEvent(t, k)
    THEN CHOOSE n \in 1..Len(events) : events[n].type = t /\ events[n].idx = k
    ELSE 0

\* dependent steps run one at a time and in plan order
DependentStepsSerial ==
  \A d \in Dependent :
    Started(d) => \A e \in Dependent : e < d => sst[e] = "done"

\* ---- C15: in the enhanced engine no dependent step (file_write,
\* file_delete, file_move, shell_execute) starts before every independent
\* step of the plan has completed, and dependent steps run strictly one at a
\* time, in plan order relative to each other.
C15_DependentAfterIndependent ==
  engine = "enhanced" =>
    /\ \A d \in Dependent : Started(d) => \A k \in Independent : Completed(k)
    /\ DependentStepsSerial

\* what holds in every configuration: when a dependent step starts no
\* independent step is in flight and none starts later
C15_DependentAfterIndependentPhase ==
  engine = "enhanced" =>
    /\ \A d \in Dependent : Started(d) =>
         \A k \in Independent :
           /\ sst[k] \in {"none", "done"}
           /\ Started(k) => EventPos("step_complete", k) < EventPos("step_start", d)
    /\ DependentStepsSerial

\* C15 with failFast off
C15_DependentAfterIndependentNoFailFast ==
  ~failFast => C15_DependentAfterIndependent

\* two independent steps ran in one batch, then the dependent step
C15_PhasesRan ==
  /\ engine = "enhanced" /\ Len(steps) = 3 /\ maxConcurrent = 2
  /\ Independent = {2, 3} /\ Dependent = {1}
  /\ EventIdx("step_complete") = <<3, 2, 1>>

\* the executor calls that have been made and have not settled
InFlight ==
  {k \in 1..Len(execCalls) : execCalls[k] > 0 /\ execOutcome[k] \in {"none", "timeout"}}

\* the executor calls the engine is awaiting
Awaited == {k \in 1..Len(sst) : sst[k] = "executing"}

\* the batches of executeParallel, when it is used
ParallelBatches ==
  IF Len(independentSteps(steps)) > 1
    THEN batches(independentSteps(steps), maxConcurrent)
    ELSE <<>>

Members(b) == {b[n] : n \in 1..Len(b)}

BatchesInOrder ==
  \A b \in 1..(Len(ParallelBatches) - 1) :
    \A m \in Members(ParallelBatches[b + 1]) :
      Started(m) => \A n \in Members(ParallelBatches[b]) : Completed(n)

\* ---- C16: in the enhanced engine with two or more independent steps, at
\* no time are more than maxConcurrent executor invocations in flight, and
\* no step of batch i+1 emits step_start before every step of batch i has
\* emitted its step_complete.
C16_BoundedBatches ==
  (engine = "enhanced" /\ Cardinality(Independent) >= 2) =>
    /\ Cardinality(InFlight) <= maxConcurrent
    /\ BatchesInOrder

\* the same, counting only the executor calls the engine still awaits
C16_BoundedAwaitedBatches ==
  (engine = "enhanced" /\ Cardinality(Independent) >= 2) =>
    /\ Cardinality(Awaited) <= maxConcurrent
    /\ BatchesInOrder

\* a batch of two ran at full width and the next batch has started
C16_FullBatchThenNext ==
  /\ engine = "enhanced" /\ maxConcurrent = 2 /\ Cardinality(Independent) = 3
  /\ Len(EventIdx("step_complete")) >= 2 /\ EventIdx("step_complete")[1] = 2
  /\ Awaited = {3}

\* event e may directly follow event d in the stream of a serial run
FollowsInShape(d, e) ==
  CASE e.type = "step_start" ->
         \/ e.idx = 1 /\ d = StatusEvent("executing")
         \/ e.idx > 1 /\ d.type = "step_complete" /\ d.idx = e.idx - 1
    [] e.type = "confirm_permission" -> d = StepStartEvent(e.idx)
    [] e.type = "step_complete" ->
         \/ d = StepStartEvent(e.idx)
         \/ d = ConfirmPermissionEvent(e.idx)
    [] e = StatusEvent("executing") -> d = ConfirmPlanEvent
    [] e = ConfirmPlanEvent -> d = StatusEvent("planning")
    [] OTHER -> TRUE

\* ---- C17: in a serial run with an approved plan the event stream is
\* status(planning), confirm_plan, status(executing), then for each step i
\* in plan order step_start(i), an optional confirm_permission and
\* step_complete(i), with no event of another step in between; no
\* step_start is emitted before the plan has been approved.
C17_SerialEventShape ==
  engine = "serial" =>
    /\ Len(events) >= 1 => events[1] = StatusEvent("planning")
    /\ \A n \in 2..Len(events) : FollowsInShape(events[n - 1], events[n])
    /\ \A n \in 1..Len(events) :
         events[n].type \in {"step_start", "confirm_permission", "step_complete"}
           => events[n].idx \in 1..Len(steps)
    /\ (\E n \in 1..Len(events) :
          events[n].type \in {"step_start", "step_complete", "confirm_permission"}
            \/ events[n] = StatusEvent("executing"))
         => planApproved = "yes"
    /\ (pc = "done" /\ planApproved = "yes" /\ ~cancelInRun) =>
         /\ EventIdx("step_start") = [k \in 1..Len(steps) |-> k]
         /\ EventIdx("step_complete") = [k \in 1..Len(steps) |-> k]

C17_Witness ==
  /\ engine = "serial" /\ pc = "done" /\ planApproved = "yes" /\ ~cancelInRun
  /\ Len(steps) = 2
  /\ [n \in 1..Len(events) |-> events[n].type] =
       <<"status", "confirm_plan", "status", "step_start", "step_complete",
         "step_start", "confirm_permission", "step_complete", "result">>

\* ---- C18: with the default approval policy of the enhanced guard, an
\* evaluate() of a request with riskLevel DELETE or SYSTEM returns
\* granted only after the callback was invoked for that request and answered
\* true; it is never auto-approved or granted by the default policy.
HighRiskRequest(req) == req.riskLevel \in {"DELETE", "SYSTEM"}

DefaultPolicyGuard ==
  guardConfig.kind = "enhanced" /\ guardConfig.approvalPolicy = DEFAULT_APPROVAL_POLICY

Granted == evaluating = "returned" /\ permissionResult.granted

C18_HighRiskNeedsCallback ==
  (DefaultPolicyGuard /\ HighRiskRequest(request) /\ Granted) => callbackAnswer = "true"

C18_Witness ==
  /\ DefaultPolicyGuard
  /\ request.riskLevel = "DELETE"
  /\ Granted
  /\ callbackAnswer = "true"

\* ---- C19: for a request with action 'shell' and a target, if the target
\* contains a denylisted command as a substring at any position, compared
\* case-insensitively, evaluate() of the enhanced guard returns
\* granted=false with the denied-pattern reason, whatever the risk tier,
\* the allowlist and the callback's answer.
ShellRequestEvaluated ==
  /\ guardConfig.kind = "enhanced"
  /\ evaluating # "idle"
  /\ request.action = "shell"
  /\ request.target # <<>>

DeniedWithPattern ==
  /\ evaluating = "returned"
  /\ ~permissionResult.granted
  /\ permissionResult.reason = ReasonDeniedPattern

\* the target, as given, contains a denylisted command, case ignored
TargetContainsDenied ==
  SomePattern(guardConfig.whitelist.deniedCommands,
              LAMBDA denied : includes(toLowerCase(request.target), toLowerCase(denied)))

C19_DeniedCommandAnywhere ==
  (ShellRequestEvaluated /\ TargetContainsDenied) => DeniedWithPattern

\* the target without its leading and trailing blanks contains a denylisted
\* command, case ignored
TrimmedTargetContainsDenied ==
  SomePattern(guardConfig.whitelist.deniedCommands,
              LAMBDA denied : includes(toLowerCase(trim(request.target)), toLowerCase(denied)))

\* C19, for a match inside the target without its surrounding blanks: the
\* request is denied with the denied-pattern reason
C19_DeniedCommandInTrimmedTarget ==
  (ShellRequestEvaluated /\ TrimmedTargetContainsDenied) => DeniedWithPattern

\* C19, for denylisted commands that neither start nor end with a blank
C19_DeniedCommandWithoutEdgeBlanks ==
  (/\ ShellRequestEvaluated
   /\ SomePattern(guardConfig.whitelist.deniedCommands,
                  LAMBDA denied : /\ trim(denied) = denied
                                  /\ includes(toLowerCase(request.target), toLowerCase(denied))))
    => DeniedWithPattern

\* a denylisted command is matched in another case and next to an allowlist match
C19_DeniedInOtherCase ==
  /\ ShellRequestEvaluated
  /\ guardConfig.whitelist.deniedCommands = << <<"R">> >>
  /\ guardConfig.whitelist.allowedCommands = << <<"r">> >>
  /\ request.target = <<" ", "r">>
  /\ request.riskLevel = "READ"
  /\ DeniedWithPattern

\* a shell request whose target ends with the denylisted command is granted
C19_DeniedCommandGranted ==
  /\ ShellRequestEvaluated
  /\ TargetContainsDenied
  /\ Granted

\* ---- C20: when no callback has been registered, every request whose risk
\* tier requires confirmation is denied with the explicit no-callback
\* reason; such a request is never granted.
TierRequiresConfirmation(cfg, riskLevel) ==
  IF cfg.kind = "enhanced"
    THEN /\ riskLevel \notin cfg.approvalPolicy.autoApprove
         /\ riskLevel \in cfg.approvalPolicy.requireConfirmation
    ELSE basicRequiresConfirmation(cfg.finalConfig, riskLevel)

NoCallbackEvaluated ==
  /\ callback = "null"
  /\ evaluating = "returned"
  /\ TierRequiresConfirmation(guardConfig, request.riskLevel)

C20_NoCallbackDeniesWithReason ==
  NoCallbackEvaluated =>
    (~permissionResult.granted /\ permissionResult.reason = ReasonNoCallback)

\* the reason of the allow and deny lists for the request, ReasonNone if
\* they let it pass
ListReason(cfg, req) ==
  IF cfg.kind = "enhanced"
    THEN IF req.action = "shell" /\ req.target # <<>>
              /\ ~isCommandAllowed(cfg.whitelist, req.target).allowed
           THEN isCommandAllowed(cfg.whitelist, req.target).reason
         ELSE IF req.target # <<>> /\ ~startsWithHttp(req.target)
                 /\ ~isPathAllowed(cfg.whitelist, req.target).allowed
           THEN isPathAllowed(cfg.whitelist, req.target).reason
         ELSE IF req.target # <<>> /\ startsWithHttp(req.target)
                 /\ ~isDomainAllowed(cfg.whitelist, req.target).allowed
           THEN isDomainAllowed(cfg.whitelist, req.target).reason
         ELSE ReasonNone
    ELSE IF req.target # <<>> /\ ~basicIsPathAllowed(cfg.whitelist, req.target)
           THEN ReasonBasicPathNotAllowed
         ELSE IF req.action = "shell" /\ req.target # <<>>
                 /\ ~basicIsCommandAllowed(cfg.whitelist, req.target)
           THEN ReasonCommandNotAllowed
         ELSE ReasonNone

\* a step of evaluate() that returns while no callback is registered, for a
\* request whose tier requires confirmation
NoCallbackEvaluateStep ==
  /\ callback = "null" /\ callback' = "null"
  /\ evaluating # "awaiting" /\ evaluating' = "returned"
  /\ TierRequiresConfirmation(guardConfig, request'.riskLevel)

\* C20 as it holds: such a request is never granted; a request the allow
\* and deny lists refuse is denied with their reason; any other is
\* denied with the no-callback reason, or, in the enhanced guard once the
\* tool's approvals have reached maxApprovalsPerSession, with the
\* session-limit reason.
C20_NoCallbackFailsClosed ==
  [][NoCallbackEvaluateStep =>
       /\ ~permissionResult'.granted
       /\ IF ListReason(guardConfig, request') # ReasonNone
            THEN permissionResult'.reason = ListReason(guardConfig, request')
          ELSE IF /\ guardConfig.kind = "enhanced"
                  /\ sessionState[request'.toolName] >= guardConfig.maxApprovalsPerSession
            THEN permissionResult'.reason \in {ReasonNoCallback, ReasonSessionLimit}
          ELSE permissionResult'.reason = ReasonNoCallback]_vars

C20_Witness ==
  /\ NoCallbackEvaluated
  /\ guardConfig.kind = "enhanced"
  /\ request.riskLevel = "SYSTEM"
  /\ ~permissionResult.granted
  /\ permissionResult.reason = ReasonNoCallback

\* the basic guard denies with the no-callback reason as well
C20_BasicNoCallback ==
  /\ NoCallbackEvaluated
  /\ guardConfig.kind = "basic"
  /\ permissionResult = PermissionResult(FALSE, ReasonNoCallback, FALSE)

\* without a callback the session limit takes the place of the no-callback reason
C20_SessionLimitWithoutCallback ==
  /\ NoCallbackEvaluated
  /\ ListReason(guardConfig, request) = ReasonNone
  /\ permissionResult.reason = ReasonSessionLimit

\* ---- C21: within one session, for each tool name the callback is reached
\* by at most maxApprovalsPerSession requests that require confirmation;
\* every further such request for that tool is denied with the session-limit
\* reason and the callback is not invoked.
\* the request passes the lists and its tier asks for confirmation
ConfirmationRequiring(req) ==
  /\ ListReason(guardConfig, req) = ReasonNone
  /\ TierRequiresConfirmation(guardConfig, req.riskLevel)

C21_SessionLimit ==
  /\ [](\A t \in ToolNames : callbackReached[t] <= guardConfig.maxApprovalsPerSession)
  /\ [][\A req \in SessionRequests :
          (/\ evaluate(req)
           /\ lastActivity = "recent"
           /\ ConfirmationRequiring(req)
           /\ callbackReached[req.toolName] >= guardConfig.maxApprovalsPerSession)
          => /\ evaluating' = "returned"
             /\ permissionResult' = PermissionResult(FALSE, ReasonSessionLimit, FALSE)
             /\ callbackReached' = callbackReached]_vars

C21_Witness ==
  /\ guardConfig.maxApprovalsPerSession = 2
  /\ callbackReached = [t \in ToolNames |-> IF t = "file_delete" THEN 2 ELSE 1]
  /\ request.toolName = "file_delete"
  /\ evaluating = "returned"
  /\ permissionResult.reason = ReasonSessionLimit
  /\ callbackAnswer = "none"

\* ---- C22: for every approval policy of the enhanced guard, every
\* evaluate() result with riskLevel MODIFY and granted=true has
\* requiresBackup=true.
ModifyGranted ==
  /\ guardConfig.kind = "enhanced"
  /\ request.riskLevel = "MODIFY"
  /\ Granted

C22_ModifyGrantedRequiresBackup ==
  ModifyGranted => permissionResult.requiresBackup

\* C22, for the policies that name MODIFY in autoApprove or in
\* requireConfirmation (DEFAULT_APPROVAL_POLICY is one)
C22_ListedModifyRequiresBackup ==
  (/\ ModifyGranted
   /\ "MODIFY" \in guardConfig.approvalPolicy.autoApprove
                     \cup guardConfig.approvalPolicy.requireConfirmation)
    => permissionResult.requiresBackup

\* a MODIFY request is granted with a backup after the callback's approval
C22_ModifyGrantedWithBackup ==
  /\ ModifyGranted
  /\ callbackAnswer = "true"
  /\ permissionResult.requiresBackup

\* ---- C30: a request that a command, path or domain allow/deny list
\* refuses is denied before any policy step: the callback is not invoked and
\* the session's approval counters and lastActivity stay as they are, even
\* when the risk tier would be auto-approved.
ListReasons ==
  {ReasonDeniedPattern, ReasonNotInAllowedList, ReasonPathDenied, ReasonPathNotAllowed,
   ReasonDomainDenied, ReasonDomainNotAllowed}

\* one of the list checks of the enhanced guard refuses the request
RefusedByList(cfg, req) ==
  /\ req.target # <<>>
  /\ \/ req.action = "shell" /\ ~isCommandAllowed(cfg.whitelist, req.target).allowed
     \/ ~startsWithHttp(req.target) /\ ~isPathAllowed(cfg.whitelist, req.target).allowed
     \/ startsWithHttp(req.target) /\ ~isDomainAllowed(cfg.whitelist, req.target).allowed

\* (a step of evaluate() is a step of evaluate(request'))
C30_ListDenialBeforePolicy ==
  [][(/\ guardConfig.kind = "enhanced"
      /\ RefusedByList(guardConfig, request')
      /\ evaluate(request'))
       => /\ evaluating' = "returned"
          /\ ~permissionResult'.granted
          /\ permissionResult'.reason \in ListReasons
          /\ callbackAnswer' = "none"
          /\ callbackReached' = callbackReached
          /\ sessionState' = sessionState
          /\ lastActivity' = lastActivity]_vars

\* a READ request to a denied path, made in a session that has an approval
\* counted and has timed out
C30_Witness ==
  /\ guardConfig.kind = "enhanced"
  /\ RefusedByList(guardConfig, request)
  /\ request.riskLevel \in guardConfig.approvalPolicy.autoApprove
  /\ evaluating = "returned"
  /\ permissionResult = PermissionResult(FALSE, ReasonPathDenied, FALSE)
  /\ sessionState[request.toolName] = 1
  /\ lastActivity = "old"

\* the domain lists refuse a URL
C30_DomainDenied ==
  /\ guardConfig.kind = "enhanced"
  /\ evaluating = "returned"
  /\ request.riskLevel \in guardConfig.approvalPolicy.autoApprove
  /\ permissionResult.reason \in {ReasonDomainDenied, ReasonDomainNotAllowed}

\* ---- C23: for any sequence of record() and check() calls on a tool, check
\* returns allowed=true if and only if fewer than maxCalls recorded calls of
\* that tool lie within the last windowMs; so a check right after maxCalls
\* records returns allowed=false, a check more than windowMs after the
\* oldest of them returns allowed=true, and check never consumes budget:
\* without a record in between, a check answers as the one before it or,
\* with time gone by, moves from false to true.
ConfigOf(toolName) == getState(toolStates, toolName)[toolName].config

\* the recorded calls of the tool that lie within the last windowMs
RecordedInWindow(toolName) ==
  Cardinality({ n \in 1..Len(recorded[toolName]) :
                  recorded[toolName][n] > now - ConfigOf(toolName).windowMs })

C23_RefusedAtLimit ==
  /\ lastCheck.toolName = "test_tool"
  /\ ~configSet["test_tool"]
  /\ recorded["test_tool"] = [n \in 1..DefaultMaxCalls |-> now]
  /\ lastCheck.at = now
  /\ lastCheck.records = DefaultMaxCalls
  /\ lastCheck.result = RateLimitResult(FALSE, 0, now + DefaultWindowMs, DefaultWindowMs)

\* ---- C24: the orchestrator calls a tool's executor, and records the call
\* against the rate limiter, only after tool lookup, parameter validation,
\* the rate-limit check, permission evaluation and the onBeforeExecute hook
\* have passed, in that order; a request stopped by any of them returns a
\* failure with retries 0, has called no executor and leaves the rate-limit
\* window as it was.
Range(f) == {f[k] : k \in DOMAIN f}

\* the calls of the tool that lie in its window
Window(ts, toolName) ==
  cleanOldCalls(ts[toolName].calls, ts[toolName].config.windowMs, now)

ChecksInOrder(hook) ==
  <<"lookup", "validation", "rate", "permission">>
    \o (IF hook THEN <<"before">> ELSE <<>>) \o <<"execute">>

ExecutorInvokedStep(s) == executorCalls'[s] = executorCalls[s] + 1

RecordStep == \E t \in RateTools : Len(toolStates'[t].calls) > Len(toolStates[t].calls)

\* the step in which execute() returns from before the try block
StoppedStep(s) ==
  /\ executions'[s] # executions[s]
  /\ executions'[s].pc = "returned"
  /\ "execute" \notin Range(passed'[s])

InvokedInOrder(s) ==
  /\ ExecutorInvokedStep(s) =>
       /\ passed'[s] = ChecksInOrder(orchEvents.onBeforeExecute)
       /\ LET t == executions[s].request.toolName
          IN toolStates'[t].calls = Append(getState(toolStates, t)[t].calls, now)
  /\ RecordStep => ExecutorInvokedStep(s)

C24_StoppedRequestRanNothing ==
  [][/\ InvokedInOrder(1)
     /\ StoppedStep(1) =>
          /\ ~executions'[1].result.success
          /\ executions'[1].result.retries = 0
          /\ executorCalls'[1] = 0
          /\ \A t \in RateTools : Window(toolStates', t) = Window(toolStates, t)]_vars

\* C24, for the round of the pipeline that is stopped: the executor is called
\* and the call recorded only after the checks in order, and a stop returns a
\* failure with retries 0 in a step that leaves the window as it was
C24_ChecksBeforeExecutor ==
  [][/\ InvokedInOrder(1)
     /\ StoppedStep(1) =>
          /\ ~executions'[1].result.success
          /\ executions'[1].result.retries = 0
          /\ \A t \in RateTools : Window(toolStates', t) = Window(toolStates, t)
          /\ executions'[1].retriesLeft = orchConfig.retryCount => executorCalls'[1] = 0]_vars

\* C24: a request stopped in its first round, each of the five ways
C24_StoppedFirstRound ==
  /\ executions[1].pc = "returned"
  /\ executions[1].result.error = MsgCancelled
  /\ executorCalls[1] = 0

\* C24: a request whose executor threw and whose second round was refused by
\* the rate limiter
C24_StoppedAfterRetry ==
  /\ executions[1].pc = "returned"
  /\ executions[1].result.error = MsgRateLimited
  /\ executions[1].result.retries = 0
  /\ executorCalls[1] = 1

\* ---- C25: for one execute() call the executor is invoked at most
\* retryCount + 1 times; an error thrown by the race, the timeout included, is
\* retried after the retry delay while retries remain, except that an error
\* whose message says Permission or Validation is never retried.
IndicatesPermissionOrValidation(message) ==
  messageIncludes(message, "Permission") \/ messageIncludes(message, "Validation")

C25_PermissionNotRetried ==
  /\ orchConfig.retryCount = MaxRetryCount
  /\ executions[1].pc = "returned"
  /\ executions[1].result = OrchResult(FALSE, <<"Permission", "denied">>, 0)
  /\ executorCalls[1] = 1

\* ---- C26: for every execute() call the onAfterExecute hook fires exactly
\* once, with the outcome execute() returns, whether the call succeeded,
\* failed after retries, or was stopped by an earlier check of the pipeline.
ReturnStep(s) ==
  /\ executions'[s] # executions[s]
  /\ executions'[s].pc = "returned"

C26_AfterExecuteOnce ==
  [][(ReturnStep(1) /\ orchEvents.onAfterExecute) =>
       afterCalls'[1] = <<executions'[1].result>>]_vars

\* C26, for the calls that return from the try or the catch block; a call
\* stopped by a check returns without the hook
C26_AfterExecuteWhenExecuted ==
  [][(ReturnStep(1) /\ orchEvents.onAfterExecute) =>
       afterCalls'[1] = IF "execute" \in Range(passed'[1])
                          THEN <<executions'[1].result>> ELSE <<>>]_vars

\* C26: a call that failed after its retries, reported to the hook
C26_ReportedAfterRetries ==
  /\ executions[1].pc = "returned"
  /\ executions[1].result.retries = MaxRetryCount
  /\ afterCalls[1] = <<executions[1].result>>

\* C26: a call stopped by validation with the hook set
C26_StoppedUnreported ==
  /\ orchEvents.onAfterExecute
  /\ executions[1].pc = "returned"
  /\ executions[1].result.error = MsgValidationFailed
  /\ afterCalls[1] = <<>>

\* ---- C27: executeParallel returns exactly one result per request, in
\* request order; at no time are more than maxParallelCalls requests
\* executing, and no request of batch N+1 starts before every request of
\* batch N has finished.
Executing(s) == executions[s].pc \in {"permission", "before", "executing", "delay"}

batchOf(s) == (s - 1) \div orchConfig.maxParallelCalls

C27_BatchesInOrder ==
  /\ parallel.state = "returned" =>
       /\ Len(parallel.results) = Len(parallel.requests)
       /\ \A k \in 1..Len(parallel.requests) :
            /\ executions[k].request = parallel.requests[k]
            /\ executions[k].pc = "returned"
            /\ parallel.results[k] = executions[k].result
  /\ Cardinality({s \in Slots : Executing(s)}) <= orchConfig.maxParallelCalls
  /\ \A earlier, later \in 1..Len(parallel.requests) :
       (batchOf(earlier) < batchOf(later) /\ executions[later].pc # "idle") =>
         executions[earlier].pc = "returned"

\* C27: three requests run in two batches of at most two, the last one
\* retried once, and the three results returned
C27_Witness ==
  /\ parallel.state = "returned"
  /\ orchConfig.maxParallelCalls = 2
  /\ Len(parallel.results) = MaxRequests
  /\ parallel.results[1].success
  /\ ~parallel.results[2].success
  /\ parallel.results[MaxRequests].retries = 1

\* C27: the second batch running while executors of the first batch, which
\* lost the race against the timeout, have not settled
C27_AbandonedExecutors ==
  /\ parallel.state = "running"
  /\ parallel.from > 1
  /\ inFlight > orchConfig.maxParallelCalls

\* ---- C28: isFastPath(intent) is true exactly when intent.type is
\* system_query and intent.needsLLM is false; every intent that detect()
\* classifies as chat, shell_command or complex_task has needsLLM true, and a
\* file_operation intent is never on the fast path.
C28_FastPathOnlySystemQuery ==
  /\ fastPathCheck.called =>
       /\ fastPathCheck.answer <=>
            (fastPathCheck.intent.type = "system_query" /\ ~fastPathCheck.intent.needsLLM)
       /\ fastPathCheck.intent.type = "file_operation" => ~fastPathCheck.answer
  /\ (routed.called /\ routed.intent.type \in {"chat", "shell_command", "complex_task"}) =>
       routed.intent.needsLLM

\* C28: a file_operation intent that detect() returned, refused the fast path
C28_Witness ==
  /\ routed.called
  /\ routed.intent.type = "file_operation"
  /\ fastPathCheck.called
  /\ fastPathCheck.intent = routed.intent
  /\ ~fastPathCheck.answer

\* C28: a system_query intent that detect() returned, on the fast path
C28_SystemQueryFast ==
  /\ routed.called
  /\ fastPathCheck.called
  /\ fastPathCheck.intent = routed.intent
  /\ fastPathCheck.answer

\* C28: detect() returns a shell_command intent
C28_ShellCommandDetected == routed.called /\ routed.intent.type = "shell_command"

\* ---- C29: across any sequence of Agent.plan and Agent.execute calls on a
\* session, an ExecutionPlan's status only moves forward (pending to running
\* to completed or failed, or pending to cancelled): a status of completed,
\* failed or cancelled never changes again, and the status never returns to
\* pending or running.
\* an execute() call that meets no await sets running and then completed or
\* failed in one step
Forward(from, to) ==
  \/ to = from
  \/ from = "none" /\ to = "pending"
  \/ from = "pending" /\ to \in {"running", "cancelled", "completed", "failed"}
  \/ from = "running" /\ to \in {"completed", "failed"}

C29_StatusOnlyForward ==
  [][\A p \in PlanIds : Forward(planObjects[p].status, planObjects'[p].status)]_vars

\* C29, with the steps that move a status backward named: execute() on a
\* plan that is running, completed or failed; onPlanCreated answering false
\* for a plan that execute() has started meanwhile; and execute() finishing
\* a plan that was cancelled while it ran
C29_ForwardButReexecuteAndLateCancel ==
  [][\A p \in PlanIds :
       LET from == planObjects[p].status
           to == planObjects'[p].status
       IN \/ Forward(from, to)
          \/ /\ from \in {"running", "completed", "failed"}
             /\ executeCall.pc \in {"idle", "returned", "rejected"}
             /\ executeCall'.plan = p
             /\ to \in {"running", "completed", "failed"}
          \/ /\ from \in {"running", "completed", "failed"}
             /\ planCall.pc = "plan_callback" /\ planCall.plan = p
             /\ to = "cancelled"
          \/ /\ from = "cancelled"
             /\ executeCall.pc \notin {"idle", "returned", "rejected"}
             /\ executeCall.plan = p
             /\ to \in {"completed", "failed"}]_vars

\* C29: a plan run from pending to completed by one execute() call
C29_Completed ==
  /\ executeCall.pc = "returned"
  /\ executeCall.plan # 0
  /\ executeCall.success
  /\ Len(planObjects[1].steps) = MaxPlanSteps
  /\ planObjects[1].status = "completed"

\* C29: a second execute() call running a plan that has failed
C29_FailedPlanRunning ==
  /\ executeCall.pc = "permission"
  /\ executeCall.plan = 1
  /\ planObjects[1].status = "running"
  /\ planObjects[1].steps[1].status = "failed"

\* ---- C31: the per-tool approval counters are reset exactly when an
\* evaluation that requires confirmation arrives more than sessionTimeout
\* after the previous one; evaluations at most sessionTimeout apart never
\* reset them, so a tool that has used up its quota stays denied for as long
\* as such requests keep arriving within the timeout.
CountersAfterReset(toolName) ==
  [t \in ToolNames |->
     IF t = toolName /\ guardConfig.maxApprovalsPerSession > 0 THEN 1 ELSE 0]

C31_ResetOnlyAfterTimeout ==
  [][/\ (\E t \in ToolNames : sessionState'[t] < sessionState[t]) =>
          /\ evaluate(request')
          /\ ConfirmationRequiring(request')
          /\ lastActivity = "old"
     /\ (evaluate(request') /\ ConfirmationRequiring(request')) =>
          /\ lastActivity' = "recent"
          /\ lastActivity = "old" => sessionState' = CountersAfterReset(request'.toolName)
          /\ lastActivity # "old" =>
               /\ \A t \in ToolNames : sessionState'[t] >= sessionState[t]
               /\ sessionState[request'.toolName] >= guardConfig.maxApprovalsPerSession =>
                    /\ sessionState' = sessionState
                    /\ evaluating' = "returned"
                    /\ permissionResult' = PermissionResult(FALSE, ReasonSessionLimit, FALSE)]_vars

\* C31: the counters were cleared, and the tool that had used up its quota
\* reaches the callback again
C31_Witness ==
  /\ approvalsCleared
  /\ guardConfig.maxApprovalsPerSession = 1
  /\ sessionState = CountersAfterReset("file_delete")
  /\ callbackReached = CountersAfterReset("file_delete")
  /\ request.toolName = "file_delete"
  /\ evaluating = "awaiting"

\* C31: a request exactly sessionTimeout after the refused one is refused
\* again, and the counters stay
C31_DeniedAtTimeout ==
  /\ ~approvalsCleared
  /\ lastActivity = "limit"
  /\ evaluating = "returned"
  /\ permissionResult.reason = ReasonSessionLimit
  /\ \A t \in ToolNames : sessionState[t] = guardConfig.maxApprovalsPerSession

\* ---- C32: a target that starts with "http" but cannot be parsed as a URL
\* passes the domain check: it is not denied by it even when the domain
\* allowlist is non-empty, and evaluation continues with the risk-tier
\* policy.
UnparsableUrl(req) ==
  /\ startsWithHttp(req.target)
  /\ urlInvalid(req.target)
  /\ ~(req.action = "shell" /\ ~isCommandAllowed(guardConfig.whitelist, req.target).allowed)

C32_UnparsableUrlPassesDomainCheck ==
  [][(/\ guardConfig.kind = "enhanced"
      /\ UnparsableUrl(request')
      /\ evaluate(request'))
       => LET policy == guardConfig.approvalPolicy
              tier == request'.riskLevel
          IN /\ permissionResult'.reason \notin ListReasons
             /\ tier \in policy.autoApprove =>
                  /\ evaluating' = "returned"
                  /\ permissionResult' = PermissionResult(TRUE, ReasonNone, tier = "MODIFY")
                  /\ lastActivity' = lastActivity
             /\ (tier \notin policy.autoApprove /\ tier \notin policy.requireConfirmation) =>
                  /\ evaluating' = "returned"
                  /\ permissionResult'.granted = ~policy.denyByDefault
                  /\ lastActivity' = lastActivity
             /\ (tier \notin policy.autoApprove /\ tier \in policy.requireConfirmation) =>
                  /\ lastActivity' = "recent"
                  /\ \/ evaluating' = "awaiting" /\ callback = "set"
                     \/ /\ evaluating' = "returned"
                        /\ permissionResult'.reason \in {ReasonSessionLimit, ReasonNoCallback}]_vars

\* 'http://' with an allow list of domains: the request reaches the callback
C32_Witness ==
  /\ guardConfig.kind = "enhanced"
  /\ Len(guardConfig.whitelist.allowedDomains) > 0
  /\ request.target = <<"h">>
  /\ request.action = "fetch"
  /\ evaluating = "awaiting"

\* the same target is granted where its tier is auto-approved
C32_AutoApproved ==
  /\ guardConfig.kind = "enhanced"
  /\ Len(guardConfig.whitelist.allowedDomains) > 0
  /\ request.target = <<"h">>
  /\ evaluating = "returned"
  /\ permissionResult.granted

\* ---- C33: every run of the engine that ends, including runs ended by
\* planner failure, plan rejection or cancellation, emits exactly one result
\* event, and that event is the last event of the stream.
ResultIndices(evs) == {n \in 1..Len(evs) : evs[n].type = "result"}

OneResultLast(evs) ==
  /\ Cardinality(ResultIndices(evs)) = 1
  /\ evs[Len(evs)].type = "result"

\* the events the consumer of the run's generator has received
Stream == IF engine = "serial" THEN events ELSE delivered

C33_OneResultEventLast ==
  RunCompleted => OneResultLast(Stream)

\* C33, what holds of ExecutionEngine: at most one result event, the last of
\* the stream, and present exactly in the runs that went through every step
\* of an approved plan
C33_SerialResultOnlyAfterSteps ==
  (engine = "serial" /\ pc = "done") =>
     IF result.error = ErrNone
       THEN OneResultLast(events)
       ELSE ResultIndices(events) = {}

\* C33, what holds of EnhancedExecutionEngine: execute() emits exactly one
\* result event, as its last event, however it ends; the consumer has
\* received it, as the last event, or has not received it
C33_EnhancedEmitsOneResult ==
  (engine = "enhanced" /\ pc = "finished") =>
     /\ OneResultLast(events)
     /\ Cardinality(ResultIndices(delivered)) <= 1
     /\ ResultIndices(delivered) # {} => delivered[Len(delivered)].type = "result"

\* a serial run rejected at the plan confirmation has ended without a result
\* event
C33_RejectedWithoutResult ==
  /\ engine = "serial" /\ pc = "done"
  /\ result.error = ErrUserCancelled
  /\ ~cancelInRun
  /\ ResultIndices(events) = {}

\* an enhanced run has returned and its stream holds no result event
C33_EnhancedStreamWithoutResult ==
  /\ engine = "enhanced" /\ cstate = "returned"
  /\ ResultIndices(delivered) = {}
  /\ OneResultLast(events)

\* ---- C34: in EnhancedExecutionEngine a planner or executor call that does
\* not settle within the configured timeout ends with a timed-out error
\* whose message differs from the cancellation and user-denial reasons; a
\* timed-out step is recorded as failed with that message and the remaining
\* steps of the plan still run.
TimedOut(k) == execOutcome[k] \in {"timeout", "timeout_settled"}

StepStarted(k) == \E n \in 1..Len(events) : events[n] = StepStartEvent(k)

OtherReasons == {ErrCancelled, ErrUserCancelled, ErrUserDenied}

\* the planner's timeout is reported by an error event and a failed run; a
\* step's timeout by the step's result and its step_complete event
TimeoutsReported ==
  /\ {ErrPlanTimeout, ErrStepTimeout} \cap OtherReasons = {}
  /\ (\E n \in 1..Len(events) : events[n] = ErrorEvent(ErrPlanTimeout)) =>
       /\ pc = "finished"
       /\ result = ExecutionResult(FALSE, ErrPlanFailed, <<>>)
       /\ \A k \in 1..Len(execCalls) : execCalls[k] = 0
  /\ \A k \in 1..Len(execOutcome) :
       TimedOut(k) =>
         /\ stepResults[k] = StepResult(steps[k].id, FALSE, ErrStepTimeout)
         /\ \E n \in 1..Len(events) : events[n] = StepCompleteEvent(k, FALSE, ErrStepTimeout)

\* execute() has ended a run without cancel() in which a step timed out
EndedWithTimedOutStep ==
  /\ engine = "enhanced" /\ pc = "finished" /\ ~cancelInRun
  /\ \E k \in 1..Len(execOutcome) : TimedOut(k)

C34_PlannerTimedOut ==
  /\ engine = "enhanced"
  /\ Len(events) >= 2
  /\ events[Len(events)] = ResultEvent(FALSE, ErrPlanFailed)
  /\ events[Len(events) - 1] = ErrorEvent(ErrPlanTimeout)

\* ---- C36: EnhancedExecutionEngine.run terminates: in every run without
\* cancel() in which the planner, the executors and the formatter settle and
\* every requested confirmation is answered, the event stream ends after the
\* result event and run() returns the ExecutionResult computed by the run.
RunReturned ==
  /\ cstate = "returned"
  /\ result.returned

C36_RunTerminates ==
  ([]~cancelInRun) => <>RunReturned

\* C36, what holds: run() returns only in a run in which cancel() was called
C36_ReturnsOnlyAfterCancel ==
  RunReturned => cancelInRun

\* execute() has finished and the consumer, having received the result
\* event, waits for an event that nothing will emit
C36_WaitingAfterResult ==
  /\ engine = "enhanced"
  /\ pc = "finished"
  /\ ~cancelInRun
  /\ cstate = "waiting"
  /\ eventQueue = <<>>
  /\ Len(delivered) > 0
  /\ delivered[Len(delivered)].type = "result"
  /\ ~ENABLED NextEnhanced

\* ---- C38: in ExecutionEngine a confirmPlan(b) or confirmPermission(b)
\* call made after the consumer has received the matching confirm_plan or
\* confirm_permission event is never lost: the engine resumes with answer b
\* whether the call is made before or after the consumer requests the next
\* event from the stream.
\* the consumer holds the confirm event: the generator is suspended at its
\* yield, or, after the next next(), at the await of waitForConfirm
PlanEventReceived == engine = "serial" /\ pc \in {"y_confirm_plan", "wait_plan"}
PermissionEventReceived == engine = "serial" /\ pc \in {"y_confirm_permission", "wait_perm"}

C38_AnswerNeverLost ==
  [][\A b \in BOOLEAN :
       /\ (PlanEventReceived /\ confirmPlan(b)) =>
            /\ planApproved' = Answer(b)
            /\ pc' = "plan_answered"
       /\ (PermissionEventReceived /\ confirmPermission(b)) =>
            /\ permissionApproved'[i] = Answer(b)
            /\ pc' = "perm_answered"]_vars

\* C38, what holds: an answer given after the consumer's next() is taken, an
\* answer given before it changes nothing and the engine then waits
C38_AnswerTakenOnlyAfterNext ==
  [][\A b \in BOOLEAN :
       /\ (engine = "serial" /\ pc = "wait_plan" /\ confirmPlan(b)) =>
            /\ planApproved' = Answer(b)
            /\ pc' = "plan_answered"
       /\ (engine = "serial" /\ pc = "wait_perm" /\ confirmPermission(b)) =>
            /\ permissionApproved'[i] = Answer(b)
            /\ pc' = "perm_answered"
       /\ (engine = "serial" /\ pc = "y_confirm_plan" /\ confirmPlan(b)) =>
            UNCHANGED <<pendingConfirm, planApproved, pc, resolvedBy>>
       /\ (engine = "serial" /\ pc = "y_confirm_permission" /\ confirmPermission(b)) =>
            UNCHANGED <<pendingConfirm, permissionApproved, pc, resolvedBy>>]_vars

\* the run waits for the plan's answer after a confirm call was dropped
C38_WaitingAfterDroppedAnswer ==
  /\ engine = "serial"
  /\ pc = "wait_plan"
  /\ noopCalled
  /\ planApproved = "unset"
  /\ ~cancelInRun
  /\ ~ENABLED NextSerial

\* ---- C40: in every run that emits a result event, the success flag
\* carried by that result event equals the success flag of the
\* ExecutionResult the run returns, with or without a formatter and whether
\* or not the formatter throws.
FlagsAgree ==
  \A n \in ResultIndices(events) : events[n].ok = result.success

C40_ResultFlagsAgree ==
  result.returned => FlagsAgree

\* C40, what holds: the flags agree in EnhancedExecutionEngine, and in
\* ExecutionEngine wherever the formatter was not called
C40_FlagsAgreeUnlessSerialFormatter ==
  (result.returned /\ ~(engine = "serial" /\ formatterOutcome # "none")) => FlagsAgree

\* a serial run with a formatter, one step succeeded and one failed: the
\* result event says success, the returned result does not
C40_SerialFormatterMismatch ==
  /\ engine = "serial" /\ pc = "done"
  /\ formatterOutcome = "ok"
  /\ ~cancelInRun
  /\ events[Len(events)] = ResultEvent(TRUE, "formatted")
  /\ result.returned /\ ~result.success

\* the enhanced engine in the same run: both flags are false
C40_EnhancedFormatterAgree ==
  /\ engine = "enhanced" /\ pc = "finished"
  /\ formatterOutcome = "throw"
  /\ events[Len(events)] = ResultEvent(FALSE, "raw")
  /\ result.returned /\ ~result.success

\* ---- C35: for any sequence of set, get, has and clear on the TTL cache,
\* get(key) and has(key) report a stored value only while the time since its
\* last set does not exceed its ttl; an expired entry is removed on access
\* and reported as absent, set always replaces the entry and restarts its
\* TTL, and nothing is reported after clear.
\* the key was set since the last clear() and its ttl has not run out
Fresh(key, time) ==
  /\ lastSet[key].present
  /\ time - lastSet[key].timestamp <= lastSet[key].ttl

C35_ReportedWhileFresh ==
  /\ [](\A k \in CacheKeys : cache[k].present => cache[k] = lastSet[k])
  /\ [][\A k \in CacheKeys :
          /\ (cacheGet(k) \/ cacheHas(k)) =>
               /\ lookup'.found <=> Fresh(k, cacheNow)
               /\ (cacheGet(k) /\ lookup'.found) => lookup'.value = lastSet[k].value
               /\ ~lookup'.found => ~cache'[k].present
               /\ \A k2 \in CacheKeys \ {k} : cache'[k2] = cache[k2]
          /\ \A v \in CacheValues, tool \in CacheTools :
               cacheSet(k, v, getTTL(tool)) =>
                 /\ cache'[k] = CacheEntry(v, cacheNow, getTTL(tool))
                 /\ Fresh(k, cacheNow)'
          /\ cacheClear => ~cache'[k].present /\ ~Fresh(k, cacheNow)']_vars

\* an entry that ran out was looked up and removed, set again with another
\* value, and is reported with that value
C35_Witness ==
  /\ lookup.op = "get" /\ lookup.found /\ lookup.key = "k1" /\ lookup.value = "v2"
  /\ lookup.at = MaxCacheTime
  /\ lastSet["k1"] = CacheEntry("v2", MaxCacheTime - 1, 1)
  /\ cache["k1"] = lastSet["k1"]

\* an entry whose ttl ran out was removed by has()
C35_ExpiredRemoved ==
  /\ lookup.op = "has" /\ ~lookup.found /\ lookup.key = "k2"
  /\ lastSet["k2"].present
  /\ lookup.at - lastSet["k2"].timestamp = lastSet["k2"].ttl + 1
  /\ ~cache["k2"].present

\* ---- C37: for any tool with limit maxCalls, under every interleaving of
\* orchestrator execute() calls, including the members of one
\* executeParallel batch and retries, the number of tool executor
\* invocations recorded within any span of windowMs never exceeds maxCalls.
\* the calls of the tool that the limiter holds with a time in [from, from + windowMs)
RecordedInSpan(toolName, from) ==
  LET state == toolStates[toolName]
  IN  Cardinality({ n \in 1..Len(state.calls) :
                      /\ state.calls[n] >= from
                      /\ state.calls[n] < from + state.config.windowMs })

WithinLimit ==
  \A toolName \in RateTools :
    toolStates[toolName].present =>
      \A from \in 0..MaxTime :
        RecordedInSpan(toolName, from) <= toolStates[toolName].config.maxCalls

C37_RecordedWithinLimit == WithinLimit

\* C37, what holds: the limit is kept by execute() calls made one after the
\* other, retries included
C37_SequentialWithinLimit ==
  (\A s \in Slots \ {1} : executions[s].pc = "idle") => WithinLimit

\* two members of a batch have recorded a call of shell_execute, whose
\* limit is one call per window
C37_BatchOverLimit ==
  /\ parallel.state # "idle"
  /\ toolStates["shell_execute"].present
  /\ toolStates["shell_execute"].config.maxCalls = ShellMaxCalls
  /\ Len(toolStates["shell_execute"].calls) = ShellMaxCalls + 1
  /\ executorCalls[1] = 1 /\ executorCalls[2] = 1

\* ---- C39: when the enhanced permission guard is installed in the tool
\* orchestrator, a shell tool request whose command parameter contains a
\* denylisted command substring is denied by permission evaluation and the
\* tool's executor is never invoked for it.
ContainsDeniedCommand(whitelist, command) ==
  SomePattern(whitelist.deniedCommands,
              LAMBDA denied : includes(trim(toLowerCase(command)), toLowerCase(denied)))

\* the call in slot 1 is a shell request that reached permission evaluation
\* with a denylisted command
DenylistedShellCall ==
  /\ permissionGuard
  /\ guardConfig.kind = "enhanced"
  /\ executions[1].request = ShellRequest
  /\ executions[1].pc # "idle"
  /\ request = permissionRequest("shell_execute", request.target)
  /\ \E n \in 1..Len(passed[1]) : passed[1][n] = "rate"
  /\ ContainsDeniedCommand(guardConfig.whitelist, request.target)

C39_DenylistedCommandNeverExecuted ==
  DenylistedShellCall =>
    /\ executorCalls[1] = 0
    /\ evaluating = "returned" => ~permissionResult.granted

\* C39, what holds: for a request made by the orchestrator the guard never
\* answers from its command lists
C39_CommandListsNotConsulted ==
  (permissionGuard /\ request.action = "shell_execute") =>
     permissionResult.reason \notin {ReasonDeniedPattern, ReasonNotInAllowedList}

\* the denylisted command was approved through the callback, and the shell
\* tool's executor was invoked with it
C39_DenylistedCommandExecuted ==
  /\ DenylistedShellCall
  /\ callbackAnswer = "true"
  /\ permissionResult.granted
  /\ executorCalls[1] = 1
  /\ executions[1].pc = "executing"
====
